---- MODULE Spec2Model ----
(***************************************************************************)
(* Verification model of the PDF revision manager (pdf_manager_v3.py) and  *)
(* of the transmittal matrix updater                                       *)
(* (scripts/update_transmittal_matrix_refactored.py).                      *)
(*                                                                         *)
(* A Python str is modelled as a sequence of one-character strings, so     *)
(* that the regular expressions, str.lower, str.replace and the string     *)
(* comparison used by list.sort are computed character by character.       *)
(***************************************************************************)
EXTENDS Integers, Sequences, FiniteSets, TLC

(***************************************************************************)
(* Bounds of the model.                                                    *)
(***************************************************************************)
\* largest number of regular files in the source folder when a session starts
MaxFiles == 3
\* largest number of cleanup runs (calls of main) in one behaviour
MaxRuns == 2
\* largest number of direct calls of find_or_create_superceded_folder
MaxCalls == 2

(***************************************************************************)
(* Characters and Python str primitives.                                   *)
(***************************************************************************)
Uppers == <<"A","B","C","D","E","F","G","H","I","J","K","L","M",
            "N","O","P","Q","R","S","T","U","V","W","X","Y","Z">>
Lowers == <<"a","b","c","d","e","f","g","h","i","j","k","l","m",
            "n","o","p","q","r","s","t","u","v","w","x","y","z">>
Digits == <<"0","1","2","3","4","5","6","7","8","9">>

IsUpper(c) == \E i \in 1..26 : Uppers[i] = c
IsLower(c) == \E i \in 1..26 : Lowers[i] = c
IsDigit(c) == \E i \in 1..10 : Digits[i] = c
IsLetter(c) == IsUpper(c) \/ IsLower(c)

\* the code point of a character (ASCII)
Ord(c) ==
  IF IsUpper(c) THEN 64 + (CHOOSE i \in 1..26 : Uppers[i] = c)
  ELSE IF IsLower(c) THEN 96 + (CHOOSE i \in 1..26 : Lowers[i] = c)
  ELSE IF IsDigit(c) THEN 47 + (CHOOSE i \in 1..10 : Digits[i] = c)
  ELSE CASE c = " " -> 32
         [] c = "(" -> 40
         [] c = ")" -> 41
         [] c = "," -> 44
         [] c = "-" -> 45
         [] c = "." -> 46
         [] c = ":" -> 58
         [] c = "_" -> 95

\* the characters of the model and their code points, computed once
Alphabet == {Uppers[i] : i \in 1..26} \cup {Lowers[i] : i \in 1..26}
            \cup {Digits[i] : i \in 1..10}
            \cup {" ", "(", ")", ",", "-", ".", ":", "_"}
OrdTable == [c \in Alphabet |-> Ord(c)]

LowerChar(c) == IF IsUpper(c) THEN Lowers[CHOOSE i \in 1..26 : Uppers[i] = c] ELSE c
UpperChar(c) == IF IsLower(c) THEN Uppers[CHOOSE i \in 1..26 : Lowers[i] = c] ELSE c

\* str.lower() and str.upper()
Lower(s) == [i \in 1..Len(s) |-> LowerChar(s[i])]
Upper(s) == [i \in 1..Len(s) |-> UpperChar(s[i])]

\* s[-k:] and s[:-k] for k <= len(s)
LastN(s, k) == SubSeq(s, Len(s) - k + 1, Len(s))
DropLastN(s, k) == SubSeq(s, 1, Len(s) - k)

\* str.startswith and str.endswith
StartsWith(s, p) == Len(s) >= Len(p) /\ SubSeq(s, 1, Len(p)) = p
EndsWith(s, p) == Len(s) >= Len(p) /\ LastN(s, Len(p)) = p

\* the comparison a < b of two Python strings: lexicographic on code points
RECURSIVE StrLess(_, _)
StrLess(a, b) ==
  IF b = <<>> THEN FALSE
  ELSE IF a = <<>> THEN TRUE
  ELSE IF a[1] = b[1] THEN StrLess(Tail(a), Tail(b))
  ELSE OrdTable[a[1]] < OrdTable[b[1]]

DotPdf == <<".","p","d","f">>

\* s.replace('.pdf', ''): every non-overlapping occurrence, left to right
RECURSIVE RemoveDotPdf(_)
RemoveDotPdf(s) ==
  IF Len(s) < 4 THEN s
  ELSE IF SubSeq(s, 1, 4) = DotPdf THEN RemoveDotPdf(SubSeq(s, 5, Len(s)))
  ELSE <<s[1]>> \o RemoveDotPdf(Tail(s))

(***************************************************************************)
(* parse_filename of pdf_manager_v3.py.                                    *)
(***************************************************************************)
\* re.match(r'^(.+)_([A-Z])\.pdf$', filename, re.IGNORECASE)
MatchesRevisionPattern(f) ==
  /\ Len(f) >= 7
  /\ Lower(LastN(f, 4)) = DotPdf
  /\ IsLetter(f[Len(f) - 4])
  /\ f[Len(f) - 5] = "_"

\* re.match(r'^LF_([A-Z0-9\-]+)\.pdf$', filename, re.IGNORECASE)
MatchesNoRevisionPattern(f) ==
  /\ Len(f) >= 8
  /\ Lower(SubSeq(f, 1, 3)) = <<"l","f","_">>
  /\ Lower(LastN(f, 4)) = DotPdf
  /\ \A i \in 4..(Len(f) - 4) : IsLetter(f[i]) \/ IsDigit(f[i]) \/ f[i] = "-"

\* (base_name, revision); ok = FALSE stands for (None, None)
parse_filename(f) ==
  IF MatchesRevisionPattern(f)
  THEN [ok |-> TRUE, base |-> DropLastN(f, 6), rev |-> <<f[Len(f) - 4]>>]
  ELSE IF MatchesNoRevisionPattern(f)
  THEN [ok |-> TRUE, base |-> RemoveDotPdf(f), rev |-> <<>>]
  ELSE [ok |-> FALSE, base |-> <<>>, rev |-> <<>>]

(***************************************************************************)
(* The names that occur in the model, and the results of parsing them,     *)
(* computed once.                                                          *)
(***************************************************************************)
F_LF_A0       == <<"L","F","_","A","0",".","p","d","f">>
F_LF_A0_UPEXT == <<"L","F","_","A","0",".","P","D","F">>
F_LF_A0_A     == <<"L","F","_","A","0","_","A",".","p","d","f">>
F_LF_A0_a     == <<"L","F","_","A","0","_","a",".","p","d","f">>
F_LF_A0_B     == <<"L","F","_","A","0","_","B",".","p","d","f">>
F_LF_A0_B_UPEXT == <<"L","F","_","A","0","_","B",".","P","D","F">>
F_X_A         == <<"X","_","A",".","p","d","f">>
F_notes       == <<"n","o","t","e","s",".","p","d","f">>
F_memo        == <<"m","e","m","o",".","t","x","t">>

Names == {F_LF_A0, F_LF_A0_UPEXT, F_LF_A0_A, F_LF_A0_a, F_LF_A0_B,
          F_LF_A0_B_UPEXT, F_X_A, F_notes, F_memo}

\* folder_settings.superceded_folder_name and two other spellings of it
D_Superceded == <<"S","u","p","e","r","c","e","d","e","d">>
D_superceded == <<"s","u","p","e","r","c","e","d","e","d">>
D_SUPERCEDED == <<"S","U","P","E","R","C","E","D","E","D">>
\* a directory with an unrelated name
D_Old        == <<"O","l","d">>

DirNames == {D_Superceded, D_superceded, D_SUPERCEDED, D_Old}

\* file_processing.file_prefix_filter of the default configuration
P_LF == <<"L","F","_">>

\* parse_filename on the names of the model
ParseTable == [f \in Names |-> parse_filename(f)]
Parsed(f) == ParseTable[f]

\* f.lower().endswith('.pdf') on the names of the model
PdfNames == {f \in Names : EndsWith(Lower(f), DotPdf)}

\* f.lower().startswith(prefix.lower()) on the names of the model
PrefixedNames == [p \in {P_LF} |-> {f \in Names : StartsWith(Lower(f), Lower(p))}]

\* filter_files_by_prefix, on a list of names
filter_files_by_prefix(files, prefix) ==
  IF prefix = <<>> THEN files
  ELSE SelectSeq(files, LAMBDA f : f \in PrefixedNames[prefix])

(***************************************************************************)
(* compare_and_group_files of pdf_manager_v3.py.                           *)
(* A member of a group is the tuple (rev, filename), written <<rev, name>>.*)
(***************************************************************************)
\* "if base and rev is not None"
Recognized(f) == Parsed(f).ok /\ Parsed(f).base # <<>>

\* the keys of the dict grouped_files, in insertion order
RECURSIVE GroupKeys(_, _)
GroupKeys(files, seen) ==
  IF files = <<>> THEN <<>>
  ELSE LET b == Parsed(files[1]).base IN
       IF Recognized(files[1]) /\ b \notin seen
       THEN <<b>> \o GroupKeys(Tail(files), seen \cup {b})
       ELSE GroupKeys(Tail(files), seen)

\* grouped_files[base]: the (rev, filename) tuples in the order of the listing
RECURSIVE GroupMembers(_, _)
GroupMembers(files, base) ==
  IF files = <<>> THEN <<>>
  ELSE LET p == Parsed(files[1]) IN
       IF Recognized(files[1]) /\ p.base = base
       THEN <<<<p.rev, files[1]>>>> \o GroupMembers(Tail(files), base)
       ELSE GroupMembers(Tail(files), base)

\* skipped_files
SkippedFiles(files) == SelectSeq(files, LAMBDA f : ~Recognized(f))

\* one step of list.sort(key=lambda x: x[0]): x goes after every element
\* whose key is not greater (the sort is stable)
InsertByRev(sorted, x) ==
  LET k == Cardinality({i \in 1..Len(sorted) : ~StrLess(x[1], sorted[i][1])})
  IN SubSeq(sorted, 1, k) \o <<x>> \o SubSeq(sorted, k + 1, Len(sorted))

RECURSIVE SortByRev(_)
SortByRev(s) ==
  IF s = <<>> THEN <<>>
  ELSE InsertByRev(SortByRev(DropLastN(s, 1)), s[Len(s)])

\* ResolveGroup with the most recently listed file kept, whatever its revision
ResolveGroupKeepsLastListed(base, rev_files) ==
  [base |-> base,
   keep |-> rev_files[Len(rev_files)],
   move |-> DropLastN(rev_files, 1)]

\* ResolveGroup with the kept file left in the move list
ResolveGroupMovesKeep(base, rev_files) ==
  LET sorted == SortByRev(rev_files)
  IN [base |-> base, keep |-> sorted[Len(sorted)], move |-> sorted]

\* the entry of final_groups for one base name
ResolveGroup(base, rev_files) ==
  LET files_with_revision == SelectSeq(rev_files, LAMBDA m : m[1] # <<>>)
      files_without_revision == SelectSeq(rev_files, LAMBDA m : m[1] = <<>>)
      with_sorted == SortByRev(files_with_revision)
      without_sorted == SortByRev(files_without_revision)
  IN IF files_with_revision # <<>> /\ files_without_revision # <<>>
     THEN [base |-> base,
           keep |-> with_sorted[Len(with_sorted)],
           move |-> files_without_revision \o DropLastN(with_sorted, 1)]
     ELSE IF files_with_revision # <<>>
     THEN [base |-> base,
           keep |-> with_sorted[Len(with_sorted)],
           move |-> DropLastN(with_sorted, 1)]
     ELSE [base |-> base,
           keep |-> without_sorted[Len(without_sorted)],
           move |-> DropLastN(without_sorted, 1)]

\* final_groups as the sequence of its entries in dict order, and skipped_files
compare_and_group_files(files) ==
  LET keys == GroupKeys(files, {})
  IN [groups |-> [i \in 1..Len(keys) |->
                    ResolveGroup(keys[i], GroupMembers(files, keys[i]))],
      skipped |-> SkippedFiles(files)]

(***************************************************************************)
(* The transmittal matrix (update_transmittal_matrix_refactored.py).       *)
(* The table is a sequence of rows, a row a sequence of cells, a cell the  *)
(* text of its paragraph (<<>> for a cell without one).  Row and column    *)
(* indices are those of the Python code, counted from 0; -1 stands for     *)
(* None.                                                                   *)
(***************************************************************************)
\* config.HEADER_KEYWORDS
S_Date == <<"D","a","t","e">>
S_Issue == <<"I","s","s","u","e">>
S_DrawingNo == <<"D","r","a","w","i","n","g"," ","N","o",".">>

\* the table built by create_transmittal_template
Template ==
  << <<<<"P","R","O","J","E","C","T",":"," ">>>>, <<>>, <<<<"D","R","A","W","I","N","G"," ","T","R","A","N","S","M","I","T","T","A","L">>>>,
     <<>>, <<>>, <<>>, <<>>, <<>>, <<>>, <<>>,
     <<S_Date>>, <<S_Issue>>, <<S_DrawingNo, <<"T","i","t","l","e">>>> >>

\* str.strip()
RECURSIVE StripLeft(_)
StripLeft(s) == IF s # <<>> /\ s[1] = " " THEN StripLeft(Tail(s)) ELSE s

RECURSIVE StripRight(_)
StripRight(s) ==
  IF s # <<>> /\ s[Len(s)] = " " THEN StripRight(DropLastN(s, 1)) ELSE s

Strip(s) == StripRight(StripLeft(s))

\* _get_cell_text
get_cell_text(cell) == Strip(cell)

\* the cells of row i (counted from 0)
RowAt(t, i) == t[i + 1]

\* the greatest row index whose first cell reads key, or -1
LastRowReading(t, key) ==
  LET hits == {i \in 0..(Len(t) - 1) :
                 RowAt(t, i) # <<>> /\ get_cell_text(RowAt(t, i)[1]) = key}
  IN IF hits = {} THEN -1 ELSE CHOOSE i \in hits : \A j \in hits : j <= i

\* _find_header_rows: the loop has no break, the last matching row wins
find_header_rows(t) ==
  [date |-> LastRowReading(t, S_Date), meta |-> LastRowReading(t, S_Issue)]

\* "while len(rows) <= meta_row_idx + 1: self.table.addElement(TableRow())"
EnsureRowAfter(t, meta_row_idx) ==
  IF Len(t) <= meta_row_idx + 1
  THEN t \o [k \in 1..(meta_row_idx + 2 - Len(t)) |-> <<>>]
  ELSE t

\* the first column of the row whose text is label, or -1
FirstColumnReading(row, label) ==
  LET hits == {c \in 0..(Len(row) - 1) : get_cell_text(row[c + 1]) = label}
  IN IF hits = {} THEN -1 ELSE CHOOSE c \in hits : \A k \in hits : c <= k

\* _find_or_create_issue_column: the table after the call, the returned
\* column index, whether a column was created, whether ValueError was raised
find_or_create_issue_column(t, issue_label, issue_meta) ==
  LET h == find_header_rows(t) IN
  IF h.date = -1 \/ h.meta = -1
  THEN [raised |-> TRUE, table |-> t, col |-> -1, created |-> FALSE]
  ELSE
    LET rows == EnsureRowAfter(t, h.meta)
        col_idx == FirstColumnReading(RowAt(rows, h.date), issue_label)
    IN IF col_idx # -1
       THEN [raised |-> FALSE,
             table |-> IF col_idx < Len(RowAt(rows, h.meta))
                       THEN [rows EXCEPT ![h.meta + 1][col_idx + 1] = issue_meta]
                       ELSE rows,
             col |-> col_idx,
             created |-> FALSE]
       ELSE
         LET with_date == [rows EXCEPT ![h.date + 1] = Append(@, issue_label)]
             with_meta == [with_date EXCEPT ![h.meta + 1] = Append(@, issue_meta)]
             padded == [i \in 1..Len(with_meta) |->
                          IF i - 1 >= h.meta + 1
                          THEN Append(with_meta[i], <<>>)
                          ELSE with_meta[i]]
         IN [raised |-> FALSE,
             table |-> padded,
             col |-> Len(RowAt(padded, h.date)) - 1,
             created |-> TRUE]

\* _get_drawing_rows: the dict, as a function from its keys to row indices;
\* a later row with the same first cell replaces an earlier one
get_drawing_rows(t) ==
  LET h == find_header_rows(t)
      data == IF h.meta = -1 THEN {}
              ELSE {k \in (h.meta + 1)..(Len(t) - 1) :
                      /\ RowAt(t, k) # <<>>
                      /\ get_cell_text(RowAt(t, k)[1]) # <<>>
                      /\ get_cell_text(RowAt(t, k)[1]) # S_DrawingNo}
  IN [drawing_no \in {get_cell_text(RowAt(t, k)[1]) : k \in data} |->
        CHOOSE i \in data :
          /\ get_cell_text(RowAt(t, i)[1]) = drawing_no
          /\ \A j \in data : get_cell_text(RowAt(t, j)[1]) = drawing_no => j <= i]

\* config.FILENAME_PATTERNS[0]:
\* re.match(r"^(.+)[_.-]([A-Z])\.(pdf|dwg|dxf)$", filename, re.IGNORECASE)
DrawingExtensions == {<<"p","d","f">>, <<"d","w","g">>, <<"d","x","f">>}

MatchesFilenamePattern(f) ==
  /\ Len(f) >= 7
  /\ Lower(LastN(f, 3)) \in DrawingExtensions
  /\ f[Len(f) - 3] = "."
  /\ IsLetter(f[Len(f) - 4])
  /\ f[Len(f) - 5] \in {"_", ".", "-"}

\* _extract_drawing_info; ok = FALSE stands for (None, None, None)
extract_drawing_info(f) ==
  IF MatchesFilenamePattern(f)
  THEN [ok |-> TRUE, drawing_no |-> DropLastN(f, 6),
        rev |-> Upper(<<f[Len(f) - 4]>>), ext |-> Upper(LastN(f, 3))]
  ELSE [ok |-> FALSE, drawing_no |-> <<>>, rev |-> <<>>, ext |-> <<>>]

\* f.lower().endswith(config.DRAWING_FILE_EXTENSIONS)
HasDrawingExtension(f) ==
  \E e \in DrawingExtensions : EndsWith(Lower(f), <<".">> \o e)

\* the position of drawing_no in the dict's insertion order, or 0
IssuedIndex(issued, drawing_no) ==
  LET hits == {k \in 1..Len(issued) : issued[k].drawing_no = drawing_no}
  IN IF hits = {} THEN 0 ELSE CHOOSE k \in hits : TRUE

\* the loop body without the comparison of revisions: the file listed last
\* gives the revision
ScanOneLastListed(issued, f) ==
  LET e == extract_drawing_info(f)
      k == IssuedIndex(issued, e.drawing_no)
  IN IF ~e.ok THEN issued
     ELSE IF k = 0
          THEN Append(issued, [drawing_no |-> e.drawing_no, rev |-> e.rev, ext |-> e.ext])
          ELSE [issued EXCEPT ![k] = [drawing_no |-> e.drawing_no,
                                      rev |-> e.rev, ext |-> e.ext]]

\* the body of the loop of _scan_for_drawings for one listed file
ScanOne(issued, f) ==
  LET e == extract_drawing_info(f)
      k == IssuedIndex(issued, e.drawing_no)
  IN IF ~e.ok THEN issued
     ELSE IF k = 0
          THEN Append(issued, [drawing_no |-> e.drawing_no, rev |-> e.rev, ext |-> e.ext])
          ELSE IF StrLess(issued[k].rev, e.rev)
               THEN [issued EXCEPT ![k] = [drawing_no |-> e.drawing_no,
                                           rev |-> e.rev, ext |-> e.ext]]
               ELSE issued

RECURSIVE ScanFiles(_, _)
ScanFiles(issued, files) ==
  IF files = <<>> THEN issued
  ELSE ScanFiles(ScanOne(issued, Head(files)), Tail(files))

\* _scan_for_drawings over the listing os.listdir returned: the dict as
\* the sequence of its items in insertion order
scan_for_drawings(listing) ==
  ScanFiles(<<>>, SelectSeq(listing, HasDrawingExtension))

\* "while len(cells) <= issue_column_idx: row.addElement(TableCell())"
PadThrough(row, issue_column_idx) ==
  IF Len(row) <= issue_column_idx
  THEN row \o [k \in 1..(issue_column_idx + 1 - Len(row)) |-> <<>>]
  ELSE row

\* "while len(new_row...) < header_cells: new_row.addElement(TableCell())"
PadTo(row, header_cells) ==
  IF Len(row) < header_cells
  THEN row \o [k \in 1..(header_cells - Len(row)) |-> <<>>]
  ELSE row

\* the row _update_matrix builds for a drawing that has none; with
\* issue_column_idx = 0 the revision paragraph lands behind the drawing
\* number in the first cell, whose text stays the drawing number
NewDrawingRow(d, issue_column_idx, header_cells) ==
  LET new_row == <<d.drawing_no>> \o [k \in 1..issue_column_idx |-> <<>>]
      with_rev == IF issue_column_idx >= 1
                  THEN [new_row EXCEPT ![Len(new_row)] = d.rev]
                  ELSE new_row
  IN PadTo(with_rev, header_cells)

\* the loop body writing an existing row's revision one column to the left
UpdateOneShifted(t, drawing_rows, d, issue_column_idx, meta_row_idx) ==
  IF d.drawing_no \in DOMAIN drawing_rows
  THEN [t EXCEPT ![drawing_rows[d.drawing_no] + 1] =
          [PadThrough(@, issue_column_idx) EXCEPT ![issue_column_idx] = d.rev]]
  ELSE Append(t, NewDrawingRow(d, issue_column_idx, Len(RowAt(t, meta_row_idx))))

\* the body of the loop of _update_matrix for one issued drawing
UpdateOne(t, drawing_rows, d, issue_column_idx, meta_row_idx) ==
  IF d.drawing_no \in DOMAIN drawing_rows
  THEN [t EXCEPT ![drawing_rows[d.drawing_no] + 1] =
          [PadThrough(@, issue_column_idx) EXCEPT ![issue_column_idx + 1] = d.rev]]
  ELSE Append(t, NewDrawingRow(d, issue_column_idx, Len(RowAt(t, meta_row_idx))))

RECURSIVE UpdateAll(_, _, _, _, _)
UpdateAll(t, drawing_rows, issued, issue_column_idx, meta_row_idx) ==
  IF issued = <<>> THEN t
  ELSE UpdateAll(UpdateOne(t, drawing_rows, Head(issued), issue_column_idx, meta_row_idx),
                 drawing_rows, Tail(issued), issue_column_idx, meta_row_idx)

\* _update_matrix
update_matrix(t, issued_drawings, drawing_rows, issue_column_idx) ==
  LET h == find_header_rows(t) IN
  IF h.meta = -1 THEN t
  ELSE UpdateAll(t, drawing_rows, issued_drawings, issue_column_idx, h.meta)

\* issue_meta = f"{issue_code} ({formats})"
IssueMeta(issue_code, formats) == issue_code \o <<" ", "(">> \o formats \o <<")">>

\* update_transmittal falling back to the template layout, and saving it,
\* when a header row is missing
update_transmittal_with_fallback(t, today, issue_code, formats, issued_drawings) ==
  LET c == find_or_create_issue_column(t, today, IssueMeta(issue_code, formats))
      d == find_or_create_issue_column(Template, today, IssueMeta(issue_code, formats))
  IN
  IF c.raised
  THEN [raised |-> FALSE, saved |-> TRUE, table |-> d.table, col |-> d.col,
        created |-> TRUE]
  ELSE IF issued_drawings = <<>>
       THEN [raised |-> FALSE, saved |-> FALSE, table |-> c.table, col |-> c.col,
             created |-> c.created]
       ELSE [raised |-> FALSE, saved |-> TRUE,
             table |-> update_matrix(c.table, issued_drawings,
                                     get_drawing_rows(c.table), c.col),
             col |-> c.col, created |-> c.created]

\* update_transmittal saving the document although the scan found nothing
update_transmittal_saving_empty(t, today, issue_code, formats, issued_drawings) ==
  LET c == find_or_create_issue_column(t, today, IssueMeta(issue_code, formats)) IN
  IF c.raised
  THEN [raised |-> TRUE, saved |-> FALSE, table |-> c.table, col |-> -1,
        created |-> FALSE]
  ELSE [raised |-> FALSE, saved |-> TRUE,
        table |-> update_matrix(c.table, issued_drawings,
                                get_drawing_rows(c.table), c.col),
        col |-> c.col, created |-> c.created]

\* update_transmittal on the loaded table t, issued_drawings being what
\* _scan_for_drawings returns: what the run leaves in memory, whether it
\* raised, and whether it reached doc.save
update_transmittal(t, today, issue_code, formats, issued_drawings) ==
  LET c == find_or_create_issue_column(t, today, IssueMeta(issue_code, formats)) IN
  IF c.raised
  THEN [raised |-> TRUE, saved |-> FALSE, table |-> c.table, col |-> -1,
        created |-> FALSE]
  ELSE IF issued_drawings = <<>>
       THEN [raised |-> FALSE, saved |-> FALSE, table |-> c.table, col |-> c.col,
             created |-> c.created]
       ELSE [raised |-> FALSE, saved |-> TRUE,
             table |-> update_matrix(c.table, issued_drawings,
                                     get_drawing_rows(c.table), c.col),
             col |-> c.col, created |-> c.created]

(***************************************************************************)
(* The file system seen by the cleanup run.                                *)
(*   folder : the names of the regular files in the selected folder        *)
(*   dirs   : the other children of the folder that matter: for each name  *)
(*            of DirNames whether it is absent, a regular file or a        *)
(*            directory, and the files of the directory as pairs           *)
(*            <<name, origin>>, origin "old" for a file that was there     *)
(*            before the session and "src" for one moved in from folder    *)
(***************************************************************************)
Absent   == [kind |-> "absent", files |-> {}]
RegFile  == [kind |-> "file", files |-> {}]
EmptyDir == [kind |-> "dir", files |-> {}]
OldDir   == [kind |-> "dir", files |-> {<<F_LF_A0_A, "old">>}]

VARIABLES
  folder,          \* set of names: regular files of the selected folder
  dirs,            \* [DirNames -> entry]
  config,          \* [prefix, interactive]: the loaded configuration
  pc,              \* position of main
  superceded_dir,  \* main: the path returned by find_or_create_superceded_folder
  grouped_files,   \* main: final_groups in dict order
  skipped_files,   \* main: the list of unrecognized files
  selected_groups, \* main: the set of base names to process
  gi,              \* main: index of the group the outer loop is at
  mi,              \* main: index into move_files of that group
  moved_files,     \* main: list of moved file names
  kept_files,      \* main: list of kept file names
  start,           \* the file system when the current run began
  runs,            \* one record per ended run
  fcalls,          \* one record per direct call of find_or_create_superceded_folder
  ods,             \* the table of the persisted transmittal document
  nsyncs,          \* number of ended runs of update_transmittal
  last_sync,       \* the inputs and the outcome of the last such run
  created_on,      \* dates on which a saved run created an issue column
  table,           \* TransmittalUpdater.table: the table loaded in memory
  ccalls,          \* one record per direct call of _find_or_create_issue_column
  scan,            \* a call of _scan_for_drawings: the listing and the result
  procs,           \* concurrent runs of update_transmittal: one record per run
  matcher          \* a call of parse_filename of pdf_manager.py: inputs and result

\* the state of the transmittal matrix
gridvars == <<ods, nsyncs, last_sync, created_on, table, ccalls>>

\* the state of the folder cleanup
cleanupvars == <<folder, dirs, config, pc, superceded_dir, grouped_files,
                 skipped_files, selected_groups, gi, mi, moved_files, kept_files,
                 start, runs, fcalls>>

vars == <<folder, dirs, config, pc, superceded_dir, grouped_files, skipped_files,
          selected_groups, gi, mi, moved_files, kept_files, start, runs, fcalls,
          ods, nsyncs, last_sync, created_on, table, ccalls, scan, procs, matcher>>

\* the state of the calls and runs studied on their own
sidevars == <<scan, procs, matcher>>

\* the local variables of main
locals == <<superceded_dir, grouped_files, skipped_files, selected_groups,
            gi, mi, moved_files, kept_files>>

(***************************************************************************)
(* find_or_create_superceded_folder.                                       *)
(* os.listdir returns the children in arbitrary order; item is the first   *)
(* child in that order that is a directory and matches folder_name         *)
(* case-insensitively, or <<>> when the loop finds none.                   *)
(* os.rename follows POSIX: a directory replaces an empty directory, and   *)
(* the call raises when the target is a non-empty directory or a file.     *)
(***************************************************************************)
MatchingDirs(d, folder_name) ==
  {n \in DOMAIN d : d[n].kind = "dir" /\ Lower(n) = Lower(folder_name)}

FirstMatches(d, folder_name) ==
  IF MatchingDirs(d, folder_name) = {} THEN {<<>>} ELSE MatchingDirs(d, folder_name)

\* find_or_create_superceded_folder that never renames: a directory spelled
\* in another case is left alone and the canonical one is created beside it
find_or_create_without_rename(d, folder_name, item) ==
  IF item = folder_name
  THEN [raised |-> FALSE, path |-> folder_name, dirs |-> d]
  ELSE IF d[folder_name].kind = "absent"
       THEN [raised |-> FALSE, path |-> folder_name,
             dirs |-> [d EXCEPT ![folder_name] = EmptyDir]]
       ELSE [raised |-> TRUE, path |-> <<>>, dirs |-> d]

find_or_create_superceded_folder(d, folder_name, item) ==
  IF item # <<>>
  THEN IF item # folder_name
       THEN IF d[folder_name].kind = "absent"
                 \/ (d[folder_name].kind = "dir" /\ d[folder_name].files = {})
            THEN [raised |-> FALSE, path |-> folder_name,
                  dirs |-> [d EXCEPT ![folder_name] = d[item], ![item] = Absent]]
            ELSE [raised |-> TRUE, path |-> <<>>, dirs |-> d]
       ELSE [raised |-> FALSE, path |-> folder_name, dirs |-> d]
  ELSE IF d[folder_name].kind = "absent"
       THEN [raised |-> FALSE, path |-> folder_name,
             dirs |-> [d EXCEPT ![folder_name] = EmptyDir]]
       ELSE [raised |-> TRUE, path |-> <<>>, dirs |-> d]

(***************************************************************************)
(* shutil.move(source, destination) of a regular file into the holding     *)
(* folder: the file leaves the source folder and takes the place of any    *)
(* file of the same name in the destination (os.rename replaces it; where  *)
(* os.rename refuses, shutil.move copies over it and unlinks the source).  *)
(***************************************************************************)
\* FolderAfterMove when the file is copied and the source is left in place
FolderAfterCopy(fold, file) == fold

\* FolderAfterMove when every file of the same base name leaves the folder
FolderAfterMoveOfGroup(fold, file) ==
  {f \in fold : Parsed(f).base # Parsed(file).base}

FolderAfterMove(fold, file) == fold \ {file}

\* DirsAfterMove when the source is unlinked and nothing reaches the destination
DirsAfterMoveLosingFile(d, dest, file) == d

DirsAfterMove(d, dest, file) ==
  [d EXCEPT ![dest].files = {p \in @ : p[1] # file} \cup {<<file, "src">>}]

(***************************************************************************)
(* main of pdf_manager_v3.py, one action per step.                         *)
(***************************************************************************)
\* the orders in which os.listdir can enumerate a set of names
RECURSIVE Perms(_)
Perms(S) ==
  IF S = {} THEN {<<>>}
  ELSE UNION {{<<x>> \o q : q \in Perms(S \ {x})} : x \in S}

\* [f for f in os.listdir(folder) if f.lower().endswith('.pdf')], as a set
PdfFiles(fold) == fold \cap PdfNames

GroupBases(groups) == {groups[i].base : i \in 1..Len(groups)}

\* whether main shows the selection dialog
DialogShown(cfg, groups) ==
  cfg.interactive \/ (cfg.prefix = <<>> /\ Len(groups) > 1)

RunRecord(status, failed, fold, d) ==
  [status |-> status, failed |-> failed,
   auto |-> ~DialogShown(config, grouped_files),
   groups |-> grouped_files, selected |-> selected_groups,
   kept |-> kept_files, moved |-> moved_files,
   folder |-> fold, dirs |-> d, dirs0 |-> start.dirs]

\* superceded_dir = find_or_create_superceded_folder(folder, ...) returns
ResolveFolder ==
  /\ pc = "start"
  /\ \E item \in FirstMatches(dirs, D_Superceded) :
       LET r == find_or_create_superceded_folder(dirs, D_Superceded, item) IN
         /\ ~r.raised
         /\ dirs' = r.dirs
         /\ superceded_dir' = r.path
  /\ pc' = "resolved"
  /\ UNCHANGED <<sidevars, gridvars, folder, config, grouped_files, skipped_files, selected_groups,
                 gi, mi, moved_files, kept_files, start, runs, fcalls>>

\* os.rename or os.makedirs raises in find_or_create_superceded_folder:
\* the exception leaves main
ResolveRaises ==
  /\ pc = "start"
  /\ \E item \in FirstMatches(dirs, D_Superceded) :
       find_or_create_superceded_folder(dirs, D_Superceded, item).raised
  /\ pc' = "aborted"
  /\ runs' = Append(runs, RunRecord("resolve_error", <<>>, folder, dirs))
  /\ UNCHANGED <<sidevars, gridvars, folder, dirs, config, locals, start, fcalls>>

\* lines 412-442 when one of the three early returns is taken
ListNothing ==
  /\ pc = "resolved"
  /\ \E pdf_files \in Perms(PdfFiles(folder)) :
       LET filtered == filter_files_by_prefix(pdf_files, config.prefix) IN
         \/ pdf_files = <<>>
         \/ filtered = <<>>
         \/ compare_and_group_files(filtered).groups = <<>>
  /\ pc' = "returned"
  /\ runs' = Append(runs, RunRecord("returned", <<>>, folder, dirs))
  /\ UNCHANGED <<sidevars, gridvars, folder, dirs, config, locals, start, fcalls>>

\* lines 412-465: list, filter, group, and choose automatic or interactive
ListAndGroup ==
  /\ pc = "resolved"
  /\ \E pdf_files \in Perms(PdfFiles(folder)) :
       LET filtered == filter_files_by_prefix(pdf_files, config.prefix)
           res == compare_and_group_files(filtered)
       IN /\ pdf_files # <<>>
          /\ filtered # <<>>
          /\ res.groups # <<>>
          /\ grouped_files' = res.groups
          /\ skipped_files' = res.skipped
          /\ IF DialogShown(config, res.groups)
             THEN pc' = "dialog" /\ selected_groups' = {}
             ELSE pc' = "moving" /\ selected_groups' = GroupBases(res.groups)
  /\ gi' = 1
  /\ mi' = 1
  /\ UNCHANGED <<sidevars, gridvars, folder, dirs, config, superceded_dir, moved_files, kept_files,
                 start, runs, fcalls>>

\* the dialog is closed with Cancel: dialog.result is None
DialogCancel ==
  /\ pc = "dialog"
  /\ pc' = "returned"
  /\ runs' = Append(runs, RunRecord("returned", <<>>, folder, dirs))
  /\ UNCHANGED <<sidevars, gridvars, folder, dirs, config, locals, start, fcalls>>

\* the dialog is closed with Process Selected
DialogSelect ==
  /\ pc = "dialog"
  /\ \E sel \in SUBSET GroupBases(grouped_files) : selected_groups' = sel
  /\ pc' = "moving"
  /\ UNCHANGED <<sidevars, gridvars, folder, dirs, config, superceded_dir, grouped_files, skipped_files,
                 gi, mi, moved_files, kept_files, start, runs, fcalls>>

\* "if base not in selected_groups: continue"
SkipGroup ==
  /\ pc = "moving"
  /\ gi <= Len(grouped_files)
  /\ grouped_files[gi].base \notin selected_groups
  /\ gi' = gi + 1
  /\ UNCHANGED <<sidevars, gridvars, folder, dirs, config, pc, superceded_dir, grouped_files,
                 skipped_files, selected_groups, mi, moved_files, kept_files,
                 start, runs, fcalls>>

\* one iteration of the inner loop: shutil.move succeeds
MoveFile ==
  /\ pc = "moving"
  /\ gi <= Len(grouped_files)
  /\ grouped_files[gi].base \in selected_groups
  /\ mi <= Len(grouped_files[gi].move)
  /\ LET file == grouped_files[gi].move[mi][2] IN
       /\ file \in folder
       /\ folder' = FolderAfterMove(folder, file)
       /\ dirs' = DirsAfterMove(dirs, superceded_dir, file)
       /\ moved_files' = Append(moved_files, file)
  /\ mi' = mi + 1
  /\ UNCHANGED <<sidevars, gridvars, config, pc, superceded_dir, grouped_files, skipped_files,
                 selected_groups, gi, kept_files, start, runs, fcalls>>

\* one iteration of the inner loop: shutil.move raises (the source is
\* missing or the move is not permitted); nothing catches the exception
MoveRaises ==
  /\ pc = "moving"
  /\ gi <= Len(grouped_files)
  /\ grouped_files[gi].base \in selected_groups
  /\ mi <= Len(grouped_files[gi].move)
  /\ pc' = "aborted"
  /\ runs' = Append(runs, RunRecord("move_error", grouped_files[gi].move[mi][2],
                                    folder, dirs))
  /\ UNCHANGED <<sidevars, gridvars, folder, dirs, config, locals, start, fcalls>>

\* the inner loop is over: kept_files.append(keep_file)
KeepGroup ==
  /\ pc = "moving"
  /\ gi <= Len(grouped_files)
  /\ grouped_files[gi].base \in selected_groups
  /\ mi > Len(grouped_files[gi].move)
  /\ kept_files' = Append(kept_files, grouped_files[gi].keep[2])
  /\ gi' = gi + 1
  /\ mi' = 1
  /\ UNCHANGED <<sidevars, gridvars, folder, dirs, config, pc, superceded_dir, grouped_files,
                 skipped_files, selected_groups, moved_files, start, runs, fcalls>>

\* the outer loop is over: "Cleanup complete." and the tally
Finish ==
  /\ pc = "moving"
  /\ gi > Len(grouped_files)
  /\ pc' = "done"
  /\ runs' = Append(runs, RunRecord("complete", <<>>, folder, dirs))
  /\ UNCHANGED <<sidevars, gridvars, folder, dirs, config, locals, start, fcalls>>

\* the program is started again on the same folder
Rerun ==
  /\ pc \in {"done", "returned", "aborted"}
  /\ Len(runs) < MaxRuns
  /\ pc' = "start"
  /\ superceded_dir' = <<>>
  /\ grouped_files' = <<>>
  /\ skipped_files' = <<>>
  /\ selected_groups' = {}
  /\ gi' = 0
  /\ mi' = 0
  /\ moved_files' = <<>>
  /\ kept_files' = <<>>
  /\ start' = [folder |-> folder, dirs |-> dirs]
  /\ UNCHANGED <<sidevars, gridvars, folder, dirs, config, runs, fcalls>>

\* the children named like the holding folder when a cleanup session starts
\* no call of _scan_for_drawings or parse_filename made, no concurrent run begun
NoScan == [listing |-> <<>>, done |-> FALSE, result |-> <<>>]
NoProcs == <<>>
NoMatcher == [filename |-> <<>>, patterns |-> <<>>, done |-> FALSE,
              found |-> FALSE, base_name |-> <<>>, revision |-> <<>>]

SideAtRest ==
  /\ scan = NoScan
  /\ procs = NoProcs
  /\ matcher = NoMatcher

\* last_sync before any run of update_transmittal
NoSync ==
  [today |-> <<>>, meta |-> <<>>, issued |-> <<>>, raised |-> FALSE,
   saved |-> FALSE, created |-> FALSE, col |-> -1]

\* the transmittal document as create_transmittal_template wrote it, unused
GridAtRest ==
  /\ ods = Template
  /\ nsyncs = 0
  /\ last_sync = NoSync
  /\ created_on = {}
  /\ table = Template
  /\ ccalls = <<>>
  /\ SideAtRest

CleanDirs ==
  {[n \in DirNames |->
      IF n = D_Superceded THEN c[1]
      ELSE IF n = D_superceded THEN c[2]
      ELSE IF n = D_SUPERCEDED THEN c[3] ELSE Absent] :
     c \in {Absent, OldDir} \X {Absent, EmptyDir} \X {Absent, OldDir}}

Init ==
  /\ folder \in {S \in SUBSET Names : Cardinality(S) <= MaxFiles}
  /\ dirs \in CleanDirs
  /\ config \in [prefix : {<<>>, P_LF}, interactive : BOOLEAN]
  /\ pc = "start"
  /\ superceded_dir = <<>>
  /\ grouped_files = <<>>
  /\ skipped_files = <<>>
  /\ selected_groups = {}
  /\ gi = 0
  /\ mi = 0
  /\ moved_files = <<>>
  /\ kept_files = <<>>
  /\ start = [folder |-> folder, dirs |-> dirs]
  /\ runs = <<>>
  /\ fcalls = <<>>
  /\ GridAtRest

Next ==
  \/ ResolveFolder
  \/ ResolveRaises
  \/ ListNothing
  \/ ListAndGroup
  \/ DialogCancel
  \/ DialogSelect
  \/ SkipGroup
  \/ MoveFile
  \/ MoveRaises
  \/ KeepGroup
  \/ Finish

\* one cleanup run on every folder of the model
Spec == Init /\ [][Next]_vars

(***************************************************************************)
(* Successive runs of the program on the same folder, under the default    *)
(* configuration of load_config (prefix filter 'LF_', automatic mode).     *)
(***************************************************************************)
InitRerun ==
  /\ folder \in {S \in SUBSET Names : Cardinality(S) <= MaxFiles}
  /\ dirs \in CleanDirs
  /\ config = [prefix |-> P_LF, interactive |-> FALSE]
  /\ pc = "start"
  /\ superceded_dir = <<>>
  /\ grouped_files = <<>>
  /\ skipped_files = <<>>
  /\ selected_groups = {}
  /\ gi = 0
  /\ mi = 0
  /\ moved_files = <<>>
  /\ kept_files = <<>>
  /\ start = [folder |-> folder, dirs |-> dirs]
  /\ runs = <<>>
  /\ fcalls = <<>>
  /\ GridAtRest

\* with a prefix filter and automatic mode main shows no dialog and selects
\* every group, so no group is skipped
NextRerun ==
  \/ ResolveFolder
  \/ ResolveRaises
  \/ ListNothing
  \/ ListAndGroup
  \/ MoveFile
  \/ MoveRaises
  \/ KeepGroup
  \/ Finish
  \/ Rerun

SpecRerun == InitRerun /\ [][NextRerun]_vars

(***************************************************************************)
(* Properties of the cleanup run.                                          *)
(***************************************************************************)
\* the files the current run hands to compare_and_group_files, as a set
Listed ==
  IF config.prefix = <<>> THEN PdfFiles(start.folder)
  ELSE PdfFiles(start.folder) \cap PrefixedNames[config.prefix]

\* the recognized files with a given base name
MembersOf(base) == {f \in Listed : Recognized(f) /\ Parsed(f).base = base}

MoveNamesOf(g) == {g.move[j][2] : j \in 1..Len(g.move)}

\* the move members of the groups the run processes
ProcessedMoveNames ==
  UNION {MoveNamesOf(grouped_files[i]) :
           i \in {k \in 1..Len(grouped_files) :
                    grouped_files[k].base \in selected_groups}}

KeepNames == {grouped_files[i].keep[2] : i \in 1..Len(grouped_files)}

\* C1: in every group that has a member with a revision letter, the kept
\* member carries a revision letter and every member without one is in the
\* move list, whatever the order of the listing.
C1_RevisionedOutranks ==
  \A i \in 1..Len(grouped_files) :
    LET g == grouped_files[i] IN
      (\E f \in MembersOf(g.base) : Parsed(f).rev # <<>>)
        => /\ g.keep[1] # <<>>
           /\ Parsed(g.keep[2]).rev # <<>>
           /\ \A f \in MembersOf(g.base) :
                Parsed(f).rev = <<>> => f \in MoveNamesOf(g)

\* a group with a revisioned keep and an unrevisioned member to move
C1_Witness ==
  \E i \in 1..Len(grouped_files) :
    /\ grouped_files[i].keep[1] # <<>>
    /\ \E j \in 1..Len(grouped_files[i].move) : grouped_files[i].move[j][1] = <<>>

\* C2: the kept member of a group carries the alphabetically latest revision
\* letter of the group (A < B < C ...), upper and lower case alike.
C2_KeepIsLatestLetter ==
  \A i \in 1..Len(grouped_files) :
    LET g == grouped_files[i] IN
      \A f \in MembersOf(g.base) :
        Parsed(f).rev # <<>>
          => /\ g.keep[1] # <<>>
             /\ ~StrLess(Upper(g.keep[1]), Upper(Parsed(f).rev))

\* C3: every group is non-empty, its members share its base name, it has one
\* keep that is not in the move list, keep and move list are exactly the
\* recognized files of that base name, each once; a group of one member has
\* an empty move list and none of its files is moved.
C3_GroupPartition ==
  /\ \A i \in 1..Len(grouped_files) :
       LET g == grouped_files[i] IN
         /\ MembersOf(g.base) # {}
         /\ Parsed(g.keep[2]).base = g.base
         /\ \A f \in MoveNamesOf(g) : Parsed(f).base = g.base
         /\ g.keep[2] \notin MoveNamesOf(g)
         /\ {g.keep[2]} \cup MoveNamesOf(g) = MembersOf(g.base)
         /\ Cardinality(MoveNamesOf(g)) = Len(g.move)
         /\ Cardinality(MembersOf(g.base)) = 1
              => /\ g.move = <<>>
                 /\ \A k \in 1..Len(moved_files) : Parsed(moved_files[k]).base # g.base
         /\ \A j \in 1..Len(grouped_files) : grouped_files[j].base = g.base => j = i
  /\ grouped_files # <<>>
       => \A f \in Listed : Recognized(f) => Parsed(f).base \in GroupBases(grouped_files)

\* a finished run with a group of one member and a group of several
C3_Witness ==
  /\ pc = "done"
  /\ \E i \in 1..Len(grouped_files) : grouped_files[i].move = <<>>
  /\ \E i \in 1..Len(grouped_files) : grouped_files[i].move # <<>>

\* C5: when the move of one file fails, only that move is abandoned: every
\* other superseded file of the processed groups is still moved and the run
\* ends with the tally.
C5_FailedMoveIsLocal ==
  \A i \in 1..Len(runs) :
    runs[i].failed # <<>>
      => /\ runs[i].status = "complete"
         /\ \A k \in 1..Len(runs[i].groups) :
              runs[i].groups[k].base \in runs[i].selected
                => \A f \in MoveNamesOf(runs[i].groups[k]) \ {runs[i].failed} :
                     \E m \in 1..Len(runs[i].moved) : runs[i].moved[m] = f

\* C6: a superseded file whose name is already taken in the holding folder
\* is not moved: the file in the holding folder is left as it is and the
\* source file stays in the source folder.
C6_CollisionAbandoned ==
  [][pc = "moving"
       => \A f \in folder :
            <<f, "old">> \in dirs[superceded_dir].files
              => /\ f \in folder'
                 /\ <<f, "old">> \in dirs'[superceded_dir].files]_vars

\* C7: the files that left the source folder are move members of processed
\* groups and are in the holding folder under their own names; keep files,
\* files excluded by the prefix filter, unrecognized files, non-PDF files
\* and the files of unselected groups are still in the source folder; no
\* file enters the source folder; when the run completes every move member
\* of a processed group is in the holding folder.
C7_Frame ==
  /\ folder \subseteq start.folder
  /\ \A f \in start.folder \ folder :
       /\ f \in ProcessedMoveNames
       /\ <<f, "src">> \in dirs[superceded_dir].files
  /\ \A f \in start.folder :
       (\/ f \notin PdfNames
        \/ f \notin Listed
        \/ ~Recognized(f)
        \/ f \in KeepNames
        \/ Parsed(f).base \notin selected_groups)
         => f \in folder
  /\ pc = "done"
       => \A f \in ProcessedMoveNames :
            f \notin folder /\ <<f, "src">> \in dirs[superceded_dir].files

\* a completed run that moved a file and left an unrecognized file and a
\* keep file in place
C7_Witness ==
  /\ pc = "done"
  /\ moved_files # <<>>
  /\ \E f \in folder : f \in PdfNames /\ ~Recognized(f)
  /\ \E f \in folder : f \in KeepNames

(***************************************************************************)
(* Properties of successive runs.                                          *)
(***************************************************************************)
SeqToSet(q) == {q[i] : i \in 1..Len(q)}

\* two successive runs, both automatic and both run to the tally
TwoCompleteRuns(i) ==
  /\ i >= 2
  /\ runs[i - 1].status = "complete" /\ runs[i - 1].auto
  /\ runs[i].status = "complete" /\ runs[i].auto

SecondRunIsNoOp(i) ==
  /\ runs[i].moved = <<>>
  /\ SeqToSet(runs[i].kept) = SeqToSet(runs[i - 1].kept)
  /\ runs[i].folder = runs[i - 1].folder
  /\ runs[i].dirs = runs[i - 1].dirs

\* C4 as stated: the second of two successive automatic runs moves no file,
\* keeps the same files, and leaves the folder as the first run left it.
C4_Idempotent ==
  \A i \in 1..Len(runs) : TwoCompleteRuns(i) => SecondRunIsNoOp(i)

\* C4 as amended: the same, for a folder in which at most one directory
\* matches the holding-folder name case-insensitively when the first of the
\* two runs starts.
C4_IdempotentOneHoldingDir ==
  \A i \in 1..Len(runs) :
    (TwoCompleteRuns(i)
       /\ Cardinality(MatchingDirs(runs[i - 1].dirs0, D_Superceded)) <= 1)
      => SecondRunIsNoOp(i)

\* a second run after a first run that moved a file
C4_Witness ==
  /\ Len(runs) >= 2
  /\ TwoCompleteRuns(2)
  /\ Cardinality(MatchingDirs(runs[1].dirs0, D_Superceded)) <= 1
  /\ runs[1].moved # <<>>

(***************************************************************************)
(* find_or_create_superceded_folder called on its own, on every            *)
(* combination of children named like the holding folder.                  *)
(***************************************************************************)
\* the call returns
CallFindOrCreate ==
  /\ pc = "idle"
  /\ Len(fcalls) < MaxCalls
  /\ \E item \in FirstMatches(dirs, D_Superceded) :
       LET r == find_or_create_superceded_folder(dirs, D_Superceded, item) IN
         /\ ~r.raised
         /\ dirs' = r.dirs
         /\ fcalls' = Append(fcalls, [raised |-> FALSE, path |-> r.path,
                                      before |-> dirs, after |-> r.dirs])
  /\ UNCHANGED <<sidevars, gridvars, folder, config, pc, locals, start, runs>>

\* os.rename or os.makedirs raises
CallFindOrCreateRaises ==
  /\ pc = "idle"
  /\ Len(fcalls) < MaxCalls
  /\ \E item \in FirstMatches(dirs, D_Superceded) :
       find_or_create_superceded_folder(dirs, D_Superceded, item).raised
  /\ fcalls' = Append(fcalls, [raised |-> TRUE, path |-> <<>>,
                               before |-> dirs, after |-> dirs])
  /\ UNCHANGED <<sidevars, gridvars, folder, dirs, config, pc, locals, start, runs>>

InitFolder ==
  /\ folder \in {{}, {F_LF_A0_A}}
  /\ dirs \in [DirNames -> {Absent, RegFile, EmptyDir, OldDir}]
  /\ dirs[D_Old].kind # "file"
  /\ config = [prefix |-> P_LF, interactive |-> FALSE]
  /\ pc = "idle"
  /\ superceded_dir = <<>>
  /\ grouped_files = <<>>
  /\ skipped_files = <<>>
  /\ selected_groups = {}
  /\ gi = 0
  /\ mi = 0
  /\ moved_files = <<>>
  /\ kept_files = <<>>
  /\ start = [folder |-> folder, dirs |-> dirs]
  /\ runs = <<>>
  /\ fcalls = <<>>
  /\ GridAtRest

NextFolder ==
  \/ CallFindOrCreate
  \/ CallFindOrCreateRaises

SpecFolder == InitFolder /\ [][NextFolder]_vars

\* the names that differ from the holding-folder name only in letter case
CaseVariants == {n \in DirNames : Lower(n) = Lower(D_Superceded) /\ n # D_Superceded}

\* what a returned call must have done
ResolvedCanonical(c) ==
  /\ c.path = D_Superceded
  /\ c.after[D_Superceded].kind = "dir"
  /\ \A v \in CaseVariants :
       c.before[v].kind = "dir"
         => /\ c.after[D_Superceded] = c.before[v]
            /\ c.after[v] = Absent
  /\ MatchingDirs(c.before, D_Superceded) = {}
       => c.after[D_Superceded] = EmptyDir
  /\ \A n \in DirNames :
       (n # D_Superceded /\ ~(n \in CaseVariants /\ c.before[n].kind = "dir"))
         => c.after[n] = c.before[n]
  /\ (\A v \in CaseVariants : c.before[v].kind # "dir")
       /\ c.before[D_Superceded].kind = "dir"
       => c.after = c.before

\* C8 as stated: for any children, a call that returns leaves a directory of
\* the canonical name and returns it; a directory that differed only in case
\* is that directory renamed, none gives a new empty directory, nothing else
\* changes; and a call after a returned call changes nothing.
C8_ResolveHoldingFolder ==
  \A i \in 1..Len(fcalls) :
    ~fcalls[i].raised
      => /\ ResolvedCanonical(fcalls[i])
         /\ (i >= 2 /\ ~fcalls[i - 1].raised) => fcalls[i].after = fcalls[i].before

\* C8 as amended: the same, when at most one directory among the children
\* matches the holding-folder name case-insensitively.
C8_ResolveOneHoldingDir ==
  \A i \in 1..Len(fcalls) :
    (~fcalls[i].raised
       /\ Cardinality(MatchingDirs(fcalls[1].before, D_Superceded)) <= 1)
      => /\ ResolvedCanonical(fcalls[i])
         /\ (i >= 2 /\ ~fcalls[i - 1].raised) => fcalls[i].after = fcalls[i].before

\* a directory spelled in another case with a file in it was renamed, and the
\* function was called again
C8_Witness ==
  /\ Len(fcalls) = 2
  /\ ~fcalls[1].raised /\ ~fcalls[2].raised
  /\ Cardinality(MatchingDirs(fcalls[1].before, D_Superceded)) = 1
  /\ fcalls[1].before[D_superceded] = OldDir
  /\ fcalls[1].after[D_Superceded] = OldDir

(***************************************************************************)
(* Synchronizations of the transmittal document with the folder: runs of   *)
(* TransmittalUpdater.update_transmittal, each on a freshly loaded         *)
(* document, starting from the template.                                   *)
(***************************************************************************)
MaxSyncs == 2
MaxListed == 2

G_T1_A == <<"T","1","_","A",".","p","d","f">>
G_T1_b_dwg == <<"T","1","_","b",".","d","w","g">>
G_Date_A == <<"D","a","t","e","_","A",".","p","d","f">>
G_notes == <<"n","o","t","e","s",".","t","x","t">>
GridNames == {G_T1_A, G_T1_b_dwg, G_Date_A, G_notes}

\* values of datetime.date.today().strftime("%Y-%m-%d")
Day1 == <<"2","0","2","6","-","1","1","-","0","2">>
Day2 == <<"2","0","2","6","-","1","1","-","0","3">>
Days == {Day1, Day2}

S_TP == <<"T","P">>
S_REV == <<"R","E","V">>
IssueCodes == {S_TP, S_REV}
S_PDF == <<"P","D","F">>
Formats == {S_PDF}
Metas == {IssueMeta(c, f) : c \in IssueCodes, f \in Formats}

\* what os.listdir can return for a folder of at most MaxListed of the names
Listings ==
  UNION {Perms(S) : S \in {X \in SUBSET GridNames : Cardinality(X) <= MaxListed}}

\* what _scan_for_drawings can return for such a folder
ScanResults == {scan_for_drawings(listing) : listing \in Listings}

\* TransmittalUpdater(folder, ods).update_transmittal(issue_code, formats) on
\* a folder whose scan gives one of results
UpdateTransmittalOn(results) ==
  /\ nsyncs < MaxSyncs
  /\ \E today \in Days, issue_code \in IssueCodes, formats \in Formats,
        issued_drawings \in results :
       LET r == update_transmittal(ods, today, issue_code, formats, issued_drawings) IN
         /\ ods' = IF r.saved THEN r.table ELSE ods
         /\ table' = r.table
         /\ last_sync' = [today |-> today, meta |-> IssueMeta(issue_code, formats),
                          issued |-> issued_drawings,
                          raised |-> r.raised, saved |-> r.saved,
                          created |-> r.created, col |-> r.col]
         /\ created_on' = IF r.saved /\ r.created
                          THEN created_on \cup {today} ELSE created_on
  /\ nsyncs' = nsyncs + 1
  /\ UNCHANGED <<cleanupvars, sidevars, ccalls>>

\* update_transmittal on a folder of at most MaxListed of GridNames
UpdateTransmittal == UpdateTransmittalOn(ScanResults)

\* the cleanup program is not running
CleanupAtRest ==
  /\ folder = {}
  /\ dirs = [n \in DirNames |-> Absent]
  /\ config = [prefix |-> P_LF, interactive |-> FALSE]
  /\ pc = "idle"
  /\ superceded_dir = <<>>
  /\ grouped_files = <<>>
  /\ skipped_files = <<>>
  /\ selected_groups = {}
  /\ gi = 0
  /\ mi = 0
  /\ moved_files = <<>>
  /\ kept_files = <<>>
  /\ start = [folder |-> folder, dirs |-> dirs]
  /\ runs = <<>>
  /\ fcalls = <<>>

InitGrid ==
  /\ CleanupAtRest
  /\ GridAtRest

NextGrid ==
  \/ UpdateTransmittal

SpecGrid == InitGrid /\ [][NextGrid]_vars

\* the template's own header rows
TemplateDateRow == RowAt(ods, 10)
TemplateIssueRow == RowAt(ods, 11)

\* the columns after the first that carry a date label or an issue meta
IssueColumns ==
  {c \in 1..(Len(TemplateDateRow) - 1) : TemplateDateRow[c + 1] # <<>>}
    \cup {c \in 1..(Len(TemplateIssueRow) - 1) : TemplateIssueRow[c + 1] # <<>>}

\* no two cells of a row carry the same date label
DateLabelsUnique(row) ==
  \A a, b \in 1..Len(row) : (a # b /\ row[a] \in Days) => row[a] # row[b]

\* C9: after any sequence of synchronizations starting from the template, no
\* two cells of the Date row carry the same date label, and the number of
\* issue columns equals the number of distinct dates on which a column was
\* created.
C9_IssueColumnUniqueness ==
  /\ DateLabelsUnique(TemplateDateRow)
  /\ DateLabelsUnique(RowAt(ods, find_header_rows(ods).date))
  /\ Cardinality(IssueColumns) = Cardinality(created_on)

(***************************************************************************)
(* _find_or_create_issue_column called on its own, on a document the       *)
(* program has saved: the template, or the template after one              *)
(* synchronization.                                                        *)
(***************************************************************************)
SavedOnce ==
  {update_transmittal(Template, today, issue_code, formats, issued_drawings).table :
     today \in Days, issue_code \in IssueCodes, formats \in Formats,
     issued_drawings \in ScanResults \ {<<>>}}

\* updater._find_or_create_issue_column(issue_label, issue_meta)
FindOrCreateIssueColumn ==
  /\ Len(ccalls) < MaxCalls
  /\ \E issue_label \in Days, issue_meta \in Metas :
       LET c == find_or_create_issue_column(table, issue_label, issue_meta) IN
         /\ table' = c.table
         /\ ccalls' = Append(ccalls, [label |-> issue_label, meta |-> issue_meta,
                                      raised |-> c.raised, col |-> c.col,
                                      created |-> c.created,
                                      before |-> table, after |-> c.table])
  /\ UNCHANGED <<cleanupvars, sidevars, ods, nsyncs, last_sync, created_on>>

InitColumn ==
  /\ CleanupAtRest
  /\ ods \in {Template} \cup SavedOnce
  /\ nsyncs = 0
  /\ last_sync = NoSync
  /\ created_on = {}
  /\ table = ods
  /\ ccalls = <<>>
  /\ SideAtRest

NextColumn ==
  \/ FindOrCreateIssueColumn

SpecColumn == InitColumn /\ [][NextColumn]_vars

\* the number of cells of every row
RowLengths(t) == [i \in 1..Len(t) |-> Len(t[i])]

\* C10: two calls of _find_or_create_issue_column with the same date label
\* and different meta return the same column index, the second call leaves
\* the number of cells of every row unchanged, and the Issue-row cell of
\* that column holds the second call's meta.
C10_IdempotentReissue ==
  \A k \in 2..Len(ccalls) :
    (/\ ccalls[k].label = ccalls[k - 1].label
     /\ ccalls[k].meta # ccalls[k - 1].meta)
    => /\ ~ccalls[k - 1].raised /\ ~ccalls[k].raised
       /\ ccalls[k].col = ccalls[k - 1].col
       /\ RowLengths(ccalls[k].after) = RowLengths(ccalls[k].before)
       /\ LET meta_row == RowAt(ccalls[k].after, find_header_rows(ccalls[k].after).meta)
          IN /\ ccalls[k].col < Len(meta_row)
             /\ meta_row[ccalls[k].col + 1] = ccalls[k].meta

\* the header rows _find_header_rows returns for the persisted document
DateRow == RowAt(ods, find_header_rows(ods).date)
IssueRow == RowAt(ods, find_header_rows(ods).meta)

\* the last run reached doc.save: both header rows were found and the scan
\* resolved at least one drawing
LastSyncSaved == nsyncs > 0 /\ last_sync.saved

\* the persisted row of drawing d holds d's revision at column col
RecordedAt(d, col) ==
  /\ d.drawing_no \in DOMAIN get_drawing_rows(ods)
  /\ LET row == RowAt(ods, get_drawing_rows(ods)[d.drawing_no])
     IN col < Len(row) /\ row[col + 1] = d.rev

\* C11: after update_transmittal on a document with both header rows and a
\* folder with a recognized drawing, exactly one cell of the Date row carries
\* today's label, the Issue-row cell of that column reads the meta, and
\* every scanned drawing has a row holding its revision at that column; on
\* the fresh template that is one new column and one new row per drawing.
C11_SynchronizePostcondition ==
  LastSyncSaved =>
    /\ Cardinality({c \in 1..Len(DateRow) : DateRow[c] = last_sync.today}) = 1
    /\ last_sync.col >= 0
    /\ last_sync.col < Len(DateRow)
    /\ DateRow[last_sync.col + 1] = last_sync.today
    /\ last_sync.col < Len(IssueRow)
    /\ IssueRow[last_sync.col + 1] = last_sync.meta
    /\ \A k \in 1..Len(last_sync.issued) : RecordedAt(last_sync.issued[k], last_sync.col)
    /\ nsyncs = 1 =>
         /\ Len(ods) = Len(Template) + Len(last_sync.issued)
         /\ Len(DateRow) = Len(RowAt(Template, 10)) + 1
         /\ Len(IssueRow) = Len(RowAt(Template, 11)) + 1

(***************************************************************************)
(* _scan_for_drawings called on its own, on every listing os.listdir can   *)
(* return for a folder of at most MaxListed of these files.                *)
(***************************************************************************)
G_T1_C_dot == <<"T","1",".","C",".","P","D","F">>
G_T2_B_dxf == <<"T","2","-","B",".","d","x","f">>
G_T1_c_txt == <<"T","1","_","c",".","t","x","t">>
G_readme == <<"r","e","a","d","m","e",".","p","d","f">>
ScanNames ==
  {G_T1_A, G_T1_b_dwg, G_T1_C_dot, G_T2_B_dxf, G_Date_A, G_notes, G_T1_c_txt, G_readme}

ScanListings ==
  UNION {Perms(S) : S \in {X \in SUBSET ScanNames : Cardinality(X) <= MaxListed}}

\* updater._scan_for_drawings()
ScanForDrawings ==
  /\ ~scan.done
  /\ scan' = [scan EXCEPT !.done = TRUE, !.result = scan_for_drawings(scan.listing)]
  /\ UNCHANGED <<cleanupvars, gridvars, procs, matcher>>

InitScan ==
  /\ CleanupAtRest
  /\ ods = Template
  /\ nsyncs = 0
  /\ last_sync = NoSync
  /\ created_on = {}
  /\ table = Template
  /\ ccalls = <<>>
  /\ scan \in [listing : ScanListings, done : {FALSE}, result : {<<>>}]
  /\ procs = NoProcs
  /\ matcher = NoMatcher

NextScan ==
  \/ ScanForDrawings

SpecScan == InitScan /\ [][NextScan]_vars

\* the listed files that have a drawing extension and match the pattern
RecognizedListed ==
  {scan.listing[i] : i \in {k \in 1..Len(scan.listing) :
      HasDrawingExtension(scan.listing[k]) /\ MatchesFilenamePattern(scan.listing[k])}}

\* the upper-cased revision letters the recognized files give a base name
LettersOf(base) ==
  {extract_drawing_info(f).rev :
     f \in {g \in RecognizedListed : extract_drawing_info(g).drawing_no = base}}

\* C12: the scan result has exactly one entry per base name among the files
\* with a drawing extension that match the filename pattern, the revision
\* recorded is the greatest upper-cased letter among those files whatever
\* the listing order, and other files contribute nothing.
C12_HighestLetterWins ==
  scan.done =>
    /\ {scan.result[k].drawing_no : k \in 1..Len(scan.result)}
         = {extract_drawing_info(f).drawing_no : f \in RecognizedListed}
    /\ \A j, k \in 1..Len(scan.result) :
         scan.result[j].drawing_no = scan.result[k].drawing_no => j = k
    /\ \A k \in 1..Len(scan.result) :
         /\ scan.result[k].rev \in LettersOf(scan.result[k].drawing_no)
         /\ \A r \in LettersOf(scan.result[k].drawing_no) :
              ~StrLess(scan.result[k].rev, r)

\* a lower revision of T1 is listed after a higher one, beside an
\* unrecognized file, and the scan has run
C12_Witness ==
  /\ scan.done
  /\ \E i, j \in 1..Len(scan.listing) :
       /\ i < j
       /\ scan.listing[i] = G_T1_b_dwg
       /\ scan.listing[j] = G_T1_A
  /\ Len(scan.result) = 1
  /\ scan.result[1].rev = <<"B">>

\* a revision letter as the matrix records it
IsRevisionCell(cell) == Len(cell) = 1 /\ IsUpper(cell[1])

\* C13: over any sequence of update_transmittal runs on the same document,
\* two runs on the same date included, the revision letter recorded for a
\* drawing in an issue column is never replaced by a lower letter.
C13_NoRevisionDecrease ==
  [][\A i \in 1..Len(ods) : \A c \in 2..Len(ods[i]) :
       (/\ i <= Len(ods') /\ c <= Len(ods'[i])
        /\ IsRevisionCell(ods[i][c]) /\ IsRevisionCell(ods'[i][c]))
       => ~StrLess(ods'[i][c], ods[i][c])]_vars

\* C14: after any sequence of synchronizations starting from the template,
\* every row returned by _get_drawing_rows has as many cells as the Date
\* header row, which has as many cells as the Issue header row.
C14_RowLengths ==
  /\ Len(DateRow) = Len(IssueRow)
  /\ \A drawing_no \in DOMAIN get_drawing_rows(ods) :
       Len(RowAt(ods, get_drawing_rows(ods)[drawing_no])) = Len(DateRow)

\* C15: in a document created by create_transmittal_template every column
\* index returned by _find_or_create_issue_column is at least 2, after the
\* drawing-number column (0) and the title column (1), so that no revision
\* letter is written into the title cell of a drawing row.
C15_IdentityPrefix ==
  /\ (nsyncs > 0 /\ ~last_sync.raised) => last_sync.col >= 2
  /\ \A drawing_no \in DOMAIN get_drawing_rows(ods) :
       LET row == RowAt(ods, get_drawing_rows(ods)[drawing_no])
       IN Len(row) >= 2 => ~IsRevisionCell(row[2])

(***************************************************************************)
(* Synchronizations of a document loaded from storage that need not be the *)
(* template: documents lacking one or both header rows are included.       *)
(***************************************************************************)
\* the template with "Datum" where "Date" was
NoDateDoc == [Template EXCEPT ![11] = <<<<"D","a","t","u","m">>>>]
\* the template with "date" where "Date" was: the comparison is exact
LowerDateDoc == [Template EXCEPT ![11] = <<<<"d","a","t","e">>>>]
\* the template with an empty row where the Issue row was
NoIssueDoc == [Template EXCEPT ![12] = <<>>]
\* the template cut before its header rows
NoHeadersDoc == SubSeq(Template, 1, 10)
\* a table without rows
EmptyDoc == <<>>
\* a document with a drawing row and no Date row
NoDateWithRowDoc ==
  SubSeq(Template, 1, 10) \o << <<S_Issue, <<"T","P"," ","(","P","D","F",")">>>>, <<<<"T","1">>, <<"A">> >> >>

LoadedDocs ==
  {Template, NoDateDoc, LowerDateDoc, NoIssueDoc, NoHeadersDoc, EmptyDoc,
   NoDateWithRowDoc}

InitLoaded ==
  /\ CleanupAtRest
  /\ ods \in LoadedDocs
  /\ nsyncs = 0
  /\ last_sync = NoSync
  /\ created_on = {}
  /\ table = ods
  /\ ccalls = <<>>
  /\ SideAtRest

NextLoaded ==
  \/ UpdateTransmittal

SpecLoaded == InitLoaded /\ [][NextLoaded]_vars

\* the persisted document lacks a header row
HeaderMissing ==
  find_header_rows(ods).date = -1 \/ find_header_rows(ods).meta = -1

\* C16: when the loaded document has no row whose first cell is "Date" or no
\* row whose first cell is "Issue", update_transmittal ends with an error,
\* the table in memory is the loaded one and the persisted document is
\* unchanged.
C16_MissingHeadersFatal ==
  [][(HeaderMissing /\ nsyncs' = nsyncs + 1)
       => (last_sync'.raised /\ ~last_sync'.saved /\ table' = ods /\ ods' = ods)]_vars

\* a run on a document without Date row, with a drawing in the folder, has
\* ended with the error
C16_Witness ==
  /\ nsyncs > 0
  /\ last_sync.raised
  /\ last_sync.issued # <<>>
  /\ find_header_rows(ods).date = -1
  /\ find_header_rows(ods).meta # -1

\* C17: when the folder scan resolves no drawing, update_transmittal leaves
\* the persisted document exactly as it was: no issue column, no changed
\* meta cell and no row is written.
C17_NoFilesNoMutation ==
  [][(nsyncs' = nsyncs + 1 /\ last_sync'.issued = <<>>)
       => (~last_sync'.saved /\ ods' = ods)]_vars

\* a run whose scan resolved nothing has ended after creating its column in
\* memory, and the persisted document is not the table in memory
C17_Witness ==
  /\ nsyncs > 0
  /\ last_sync.issued = <<>>
  /\ ~last_sync.raised
  /\ last_sync.created
  /\ table # ods

\* the drawing numbers the last scan resolved
ScannedNumbers(sync) == {sync.issued[k].drawing_no : k \in 1..Len(sync.issued)}

\* row i (counted from 1) of the document is the row of a scanned drawing
IsScannedRow(t, i, sync) ==
  t[i] # <<>> /\ get_cell_text(t[i][1]) \in ScannedNumbers(sync)

\* C18: one update_transmittal run keeps the existing rows in their order
\* and the existing cells at their indices, and changes the text of an
\* existing cell only at the current date's column, in the Issue row or in
\* the row of a drawing found by the current scan; everything else it
\* writes is appended (blank padding, the new column's label and meta, a
\* revision at the current column, new rows).
C18_SynchronizeFrame ==
  [][nsyncs' = nsyncs + 1 =>
       /\ Len(ods') >= Len(ods)
       /\ \A i \in 1..Len(ods) :
            /\ Len(ods'[i]) >= Len(ods[i])
            /\ ods[i] # <<>> => ods'[i][1] = ods[i][1]
            /\ \A c \in 1..Len(ods[i]) :
                 ods'[i][c] # ods[i][c] =>
                   /\ c - 1 = last_sync'.col
                   /\ \/ i - 1 = find_header_rows(ods).meta /\ ods'[i][c] = last_sync'.meta
                      \/ IsScannedRow(ods, i, last_sync')
            /\ \A c \in (Len(ods[i]) + 1)..Len(ods'[i]) :
                 \/ ods'[i][c] = <<>>
                 \/ i - 1 = find_header_rows(ods).date /\ ods'[i][c] = last_sync'.today
                 \/ i - 1 = find_header_rows(ods).meta /\ ods'[i][c] = last_sync'.meta
                 \/ c - 1 = last_sync'.col /\ IsScannedRow(ods, i, last_sync')]_vars

\* a saved run has written a second issue column beside an earlier one: a
\* drawing row carries a revision in both
C18_Witness ==
  /\ nsyncs >= 2
  /\ last_sync.saved
  /\ last_sync.created
  /\ \E drawing_no \in DOMAIN get_drawing_rows(ods) :
       LET row == RowAt(ods, get_drawing_rows(ods)[drawing_no])
       IN Len(row) >= 3 /\ IsRevisionCell(row[2]) /\ IsRevisionCell(row[3])

(***************************************************************************)
(* Two runs of update_transmittal on the same persisted document and the   *)
(* same date, their steps interleaved: each run loads the document         *)
(* (__init__), finds or creates its column, scans the folder and upserts   *)
(* the rows, and saves its whole document.                                 *)
(***************************************************************************)
Runs == {1, 2}

\* a document whose Date row a drawing named "Date" has taken over
HijackedDoc ==
  update_transmittal(Template, Day1, S_TP, S_PDF, scan_for_drawings(<<G_Date_A>>)).table

\* doc.save(path) writes the run's whole document over the file, then a file
\* that keeps the rows another run saved and appends this run's further rows
SavedDocumentMerged(persisted, mem) ==
  IF Len(mem) > Len(persisted)
  THEN persisted \o SubSeq(mem, Len(persisted) + 1, Len(mem))
  ELSE persisted
SavedDocument(persisted, mem) == mem

\* self.doc = load(ods_path); self.table = ...getElementsByType(Table)[0]
RunLoad(r) ==
  /\ procs.run[r].pc = "start"
  /\ procs' = [procs EXCEPT !.run[r].pc = "loaded",
                            !.run[r].loaded = ods,
                            !.run[r].table = ods]
  /\ UNCHANGED <<cleanupvars, gridvars, scan, matcher>>

\* issue_column_idx = self._find_or_create_issue_column(issue_label, issue_meta)
RunFindOrCreate(r) ==
  /\ procs.run[r].pc = "loaded"
  /\ LET c == find_or_create_issue_column(procs.run[r].table, procs.today,
                                          IssueMeta(procs.run[r].issue_code, S_PDF))
     IN procs' = [procs EXCEPT !.run[r].pc = IF c.raised THEN "raised" ELSE "column",
                               !.run[r].table = c.table,
                               !.run[r].col = c.col,
                               !.run[r].created = c.created]
  /\ UNCHANGED <<cleanupvars, gridvars, scan, matcher>>

\* the scan resolves nothing: "if not issued_drawings: return"
RunNoDrawings(r) ==
  /\ procs.run[r].pc = "column"
  /\ procs.run[r].issued = <<>>
  /\ procs' = [procs EXCEPT !.run[r].pc = "returned"]
  /\ UNCHANGED <<cleanupvars, gridvars, scan, matcher>>

\* drawing_rows = self._get_drawing_rows(); self._update_matrix(...)
RunUpsert(r) ==
  /\ procs.run[r].pc = "column"
  /\ procs.run[r].issued # <<>>
  /\ procs' = [procs EXCEPT !.run[r].pc = "upserted",
                            !.run[r].table =
                               update_matrix(@, procs.run[r].issued,
                                             get_drawing_rows(@), procs.run[r].col)]
  /\ UNCHANGED <<cleanupvars, gridvars, scan, matcher>>

\* self.doc.save(self.ods_path)
RunSave(r) ==
  /\ procs.run[r].pc = "upserted"
  /\ ods' = SavedDocument(ods, procs.run[r].table)
  /\ procs' = [procs EXCEPT !.run[r].pc = "saved", !.order = Append(@, r)]
  /\ UNCHANGED <<cleanupvars, scan, matcher, nsyncs, last_sync, created_on, table, ccalls>>

InitConcurrent ==
  /\ CleanupAtRest
  /\ ods \in {Template, HijackedDoc}
  /\ nsyncs = 0
  /\ last_sync = NoSync
  /\ created_on = {}
  /\ table = ods
  /\ ccalls = <<>>
  /\ scan = NoScan
  /\ matcher = NoMatcher
  /\ \E today \in Days, codes \in [Runs -> IssueCodes], scans \in [Runs -> ScanResults] :
       procs = [doc0 |-> ods, today |-> today, order |-> <<>>,
                run |-> [r \in Runs |->
                           [pc |-> "start", issue_code |-> codes[r],
                            issued |-> scans[r], loaded |-> <<>>, table |-> <<>>,
                            col |-> -1, created |-> FALSE]]]

NextConcurrent ==
  \/ \E r \in Runs : RunLoad(r)
  \/ \E r \in Runs : RunFindOrCreate(r)
  \/ \E r \in Runs : RunNoDrawings(r)
  \/ \E r \in Runs : RunUpsert(r)
  \/ \E r \in Runs : RunSave(r)

SpecConcurrent == InitConcurrent /\ [][NextConcurrent]_vars

\* the document run r persists when it runs alone on doc
AloneOn(doc, r) ==
  LET u == update_transmittal(doc, procs.today, procs.run[r].issue_code, S_PDF,
                              procs.run[r].issued)
  IN IF u.saved THEN u.table ELSE doc

\* what the persisted document can be when the runs do not overlap
SequentialOutcomes ==
  {procs.doc0, AloneOn(procs.doc0, 1), AloneOn(procs.doc0, 2),
   AloneOn(AloneOn(procs.doc0, 1), 2), AloneOn(AloneOn(procs.doc0, 2), 1)}

\* the metas in the row _find_header_rows takes for the Issue row
IssueColumnCount(t) == Len(RowAt(t, find_header_rows(t).meta)) - 1

\* both runs loaded the same document before either saved, and both saved
Overlapped ==
  /\ \A r \in Runs : procs.run[r].pc = "saved" /\ procs.run[r].loaded = procs.doc0

MaxPatterns == 2

PAT_standard == "^(.+)_([A-Z])\\.pdf$"
PAT_LF       == "^LF_([A-Z0-9\\-]+)_([A-Z])\\.pdf$"
PAT_dash     == "^(.+)-([A-Z])\\.pdf$"
PAT_LF_dash  == "^LF_(.+)-([A-Z])\\.pdf$"
PAT_one      == "^(.+)\\.pdf$"
PAT_broken   == "^(.+_([A-Z]\\.pdf$"

\* default_patterns
default_patterns == <<PAT_standard>>
\* values of the FILE_PATTERNS entries
CustomPatterns == {PAT_LF, PAT_dash, PAT_LF_dash, PAT_one, PAT_broken}

\* re.compile accepts the pattern (PAT_broken lacks a closing parenthesis)
Compiles(p) == p # PAT_broken

\* len(match.groups())
GroupCount(p) == IF p = PAT_one THEN 1 ELSE 2

\* the filename ends with  <sep><letter>.pdf  after at least one character
EndsWithRevision(f, sep) ==
  /\ Len(f) >= 7
  /\ Lower(LastN(f, 4)) = DotPdf
  /\ IsLetter(f[Len(f) - 4])
  /\ f[Len(f) - 5] = sep

\* the filename starts with LF_ in any letter case
StartsWithLF(f) == Len(f) >= 3 /\ Lower(SubSeq(f, 1, 3)) = <<"l","f","_">>

NoMatch == [ok |-> FALSE, g1 |-> <<>>, g2 |-> <<>>]

\* re.match(pattern, filename, re.IGNORECASE) for a pattern that compiles:
\* whether it matches, and its groups 1 and 2
PatternMatch(p, f) ==
  IF p = PAT_standard
  THEN IF EndsWithRevision(f, "_")
       THEN [ok |-> TRUE, g1 |-> DropLastN(f, 6), g2 |-> <<f[Len(f) - 4]>>]
       ELSE NoMatch
  ELSE IF p = PAT_dash
  THEN IF EndsWithRevision(f, "-")
       THEN [ok |-> TRUE, g1 |-> DropLastN(f, 6), g2 |-> <<f[Len(f) - 4]>>]
       ELSE NoMatch
  ELSE IF p = PAT_LF
  THEN IF /\ EndsWithRevision(f, "_") /\ StartsWithLF(f) /\ Len(f) >= 10
          /\ \A i \in 4..(Len(f) - 6) : IsLetter(f[i]) \/ IsDigit(f[i]) \/ f[i] = "-"
       THEN [ok |-> TRUE, g1 |-> SubSeq(f, 4, Len(f) - 6), g2 |-> <<f[Len(f) - 4]>>]
       ELSE NoMatch
  ELSE IF p = PAT_LF_dash
  THEN IF EndsWithRevision(f, "-") /\ StartsWithLF(f) /\ Len(f) >= 10
       THEN [ok |-> TRUE, g1 |-> SubSeq(f, 4, Len(f) - 6), g2 |-> <<f[Len(f) - 4]>>]
       ELSE NoMatch
  ELSE IF p = PAT_one
  THEN IF Len(f) >= 5 /\ Lower(LastN(f, 4)) = DotPdf
       THEN [ok |-> TRUE, g1 |-> DropLastN(f, 4), g2 |-> <<>>]
       ELSE NoMatch
  ELSE NoMatch

\* the loop over all_patterns aborting at a pattern that does not compile
RECURSIVE TryPatternsAborting(_, _)
TryPatternsAborting(all_patterns, filename) ==
  IF all_patterns = <<>> \/ ~Compiles(Head(all_patterns))
  THEN [found |-> FALSE, base_name |-> <<>>, revision |-> <<>>]
  ELSE LET match == PatternMatch(Head(all_patterns), filename) IN
       IF match.ok /\ GroupCount(Head(all_patterns)) >= 2
       THEN [found |-> TRUE, base_name |-> match.g1, revision |-> match.g2]
       ELSE TryPatternsAborting(Tail(all_patterns), filename)

\* "for pattern in all_patterns": re.error and a match with fewer than two
\* groups both go on to the next pattern
RECURSIVE TryPatterns(_, _)
TryPatterns(all_patterns, filename) ==
  IF all_patterns = <<>>
  THEN [found |-> FALSE, base_name |-> <<>>, revision |-> <<>>]
  ELSE LET pattern == Head(all_patterns) IN
       IF ~Compiles(pattern)
       THEN TryPatterns(Tail(all_patterns), filename)
       ELSE LET match == PatternMatch(pattern, filename) IN
            IF match.ok /\ GroupCount(pattern) >= 2
            THEN [found |-> TRUE, base_name |-> match.g1, revision |-> match.g2]
            ELSE TryPatterns(Tail(all_patterns), filename)

\* parse_filename(filename, patterns) of pdf_manager.py
pdf_manager_parse_filename(filename, patterns) ==
  TryPatterns(default_patterns \o patterns, filename)

M_LF_A0_dash_B == <<"L","F","_","A","0","-","B",".","p","d","f">>
M_X_dash_a == <<"X","-","a",".","P","D","F">>
M_lf_a0_b == <<"l","f","_","a","0","_","b",".","p","d","f">>
MatcherNames == {F_LF_A0_B, M_LF_A0_dash_B, M_X_dash_a, M_lf_a0_b, F_LF_A0, F_memo}

RECURSIVE SeqsUpTo(_, _)
SeqsUpTo(S, n) ==
  IF n = 0 THEN {<<>>}
  ELSE SeqsUpTo(S, n - 1)
         \cup {Append(q, x) : q \in SeqsUpTo(S, n - 1), x \in S}

\* base, rev = parse_filename(filename, custom_patterns)
ParseFilename ==
  /\ ~matcher.done
  /\ LET r == pdf_manager_parse_filename(matcher.filename, matcher.patterns)
     IN matcher' = [matcher EXCEPT !.done = TRUE, !.found = r.found,
                                   !.base_name = r.base_name,
                                   !.revision = r.revision]
  /\ UNCHANGED <<cleanupvars, gridvars, scan, procs>>

InitMatcher ==
  /\ CleanupAtRest
  /\ ods = Template
  /\ nsyncs = 0
  /\ last_sync = NoSync
  /\ created_on = {}
  /\ table = Template
  /\ ccalls = <<>>
  /\ scan = NoScan
  /\ procs = NoProcs
  /\ matcher \in [filename : MatcherNames,
                  patterns : SeqsUpTo(CustomPatterns, MaxPatterns),
                  done : {FALSE}, found : {FALSE},
                  base_name : {<<>>}, revision : {<<>>}]

NextMatcher ==
  \/ ParseFilename

SpecMatcher == InitMatcher /\ [][NextMatcher]_vars

\* the patterns tried, built-in first
AllPatterns == default_patterns \o matcher.patterns

\* positions of the patterns that compile and match the filename
MatchingAt ==
  {k \in 1..Len(AllPatterns) :
     Compiles(AllPatterns[k]) /\ PatternMatch(AllPatterns[k], matcher.filename).ok}

\* positions of those among them that have a base and a revision group
CapturingAt == {k \in MatchingAt : GroupCount(AllPatterns[k]) >= 2}

\* the result is what the pattern at the least position of K captured, and
\* (None, None) when K is empty
ResultIsFirstOf(K) ==
  IF K = {}
  THEN ~matcher.found
  ELSE LET k == CHOOSE i \in K : \A j \in K : i <= j
           match == PatternMatch(AllPatterns[k], matcher.filename)
       IN /\ matcher.found
          /\ matcher.base_name = match.g1
          /\ matcher.revision = match.g2

V_X       == <<"X",".","p","d","f">>
V_LF_A0_1 == <<"L","F","_","A","0","-","1",".","p","d","f">>
V2Names == {F_LF_A0, F_LF_A0_A, F_LF_A0_B, F_X_A, V_X, V_LF_A0_1, F_memo}

\* default_patterns of pdf_manager_v2.py
v2_default_patterns == <<PAT_standard, PAT_one>>

V2CustomPatterns == {PAT_LF, PAT_broken}

\* s.split(ch)[-1]
LastPart(s, ch) ==
  LET at == {i \in 1..Len(s) : s[i] = ch}
  IN IF at = {} THEN s
     ELSE SubSeq(s, (CHOOSE i \in at : \A j \in at : j <= i) + 1, Len(s))

\* ch in s
Contains(s, ch) == \E i \in 1..Len(s) : s[i] = ch

\* str.isdigit on the characters of the model
IsDigits(s) == s # <<>> /\ \A i \in 1..Len(s) : IsDigit(s[i])

\* the revision pdf_manager_v2 derives from the text of a single group
RevisionFromBaseName(base_name) ==
  IF Contains(base_name, "_")
  THEN LET last_part == LastPart(base_name, "_") IN
       IF Contains(last_part, "-")
       THEN LET revision_part == LastPart(last_part, "-") IN
            IF IsDigits(revision_part) THEN revision_part ELSE last_part
       ELSE last_part
  ELSE base_name

\* "for pattern in all_patterns" of pdf_manager_v2.py
RECURSIVE TryPatternsV2(_, _)
TryPatternsV2(all_patterns, filename) ==
  IF all_patterns = <<>>
  THEN [found |-> FALSE, base_name |-> <<>>, revision |-> <<>>]
  ELSE LET pattern == Head(all_patterns) IN
       IF ~Compiles(pattern)
       THEN TryPatternsV2(Tail(all_patterns), filename)
       ELSE LET match == PatternMatch(pattern, filename) IN
            IF match.ok /\ GroupCount(pattern) = 2
            THEN [found |-> TRUE, base_name |-> match.g1, revision |-> match.g2]
            ELSE IF match.ok /\ GroupCount(pattern) = 1
            THEN [found |-> TRUE, base_name |-> match.g1,
                  revision |-> RevisionFromBaseName(match.g1)]
            ELSE TryPatternsV2(Tail(all_patterns), filename)

v2_parse_filename(filename, patterns) ==
  TryPatternsV2(v2_default_patterns \o patterns, filename)

\* "if base and rev"
RecognizedV2(p) == p.found /\ p.base_name # <<>> /\ p.revision # <<>>

\* the keys of grouped_files, in insertion order
RECURSIVE GroupKeysV2(_, _, _)
GroupKeysV2(files, patterns, seen) ==
  IF files = <<>> THEN <<>>
  ELSE LET p == v2_parse_filename(files[1], patterns) IN
       IF RecognizedV2(p) /\ p.base_name \notin seen
       THEN <<p.base_name>> \o GroupKeysV2(Tail(files), patterns, seen \cup {p.base_name})
       ELSE GroupKeysV2(Tail(files), patterns, seen)

\* grouped_files[base]: the (rev, filename) tuples in the order of the listing
RECURSIVE GroupMembersV2(_, _, _)
GroupMembersV2(files, patterns, base) ==
  IF files = <<>> THEN <<>>
  ELSE LET p == v2_parse_filename(files[1], patterns) IN
       IF RecognizedV2(p) /\ p.base_name = base
       THEN <<<<p.revision, files[1]>>>> \o GroupMembersV2(Tail(files), patterns, base)
       ELSE GroupMembersV2(Tail(files), patterns, base)

\* the loop over grouped_files.items(): the files kept and the files moved
RECURSIVE ProcessGroupsV2(_, _, _, _)
ProcessGroupsV2(keys, files, patterns, selection) ==
  IF keys = <<>> THEN [kept_files |-> <<>>, moved_files |-> <<>>]
  ELSE LET rest == ProcessGroupsV2(Tail(keys), files, patterns, selection)
           rev_files == SortByRev(GroupMembersV2(files, patterns, Head(keys)))
       IN IF Head(keys) \notin selection THEN rest
          ELSE [kept_files |-> <<rev_files[Len(rev_files)][2]>> \o rest.kept_files,
                moved_files |->
                  [i \in 1..(Len(rev_files) - 1) |-> rev_files[i][2]] \o rest.moved_files]

\* the distinct-name listings of at most MaxListed names
V2Listings ==
  {s \in SeqsUpTo(V2Names, MaxListed) :
     s # <<>> /\ \A i, j \in 1..Len(s) : i # j => s[i] # s[j]}

\* main of pdf_manager_v2.py with no prefix filter, from the listing on: the
\* dialog is shown for more than one group and returns the groups selected
MainV2 ==
  /\ ~matcher.done
  /\ LET pdf_files == SelectSeq(matcher.files, LAMBDA f : EndsWith(Lower(f), DotPdf))
         keys == GroupKeysV2(pdf_files, matcher.patterns, {})
         keyset == {keys[i] : i \in 1..Len(keys)}
     IN \E selection \in SUBSET keyset :
          /\ Len(keys) <= 1 => selection = keyset
          /\ LET r == ProcessGroupsV2(keys, pdf_files, matcher.patterns, selection)
             IN matcher' = [matcher EXCEPT
                  !.done = TRUE,
                  !.parsed = [f \in {pdf_files[i] : i \in 1..Len(pdf_files)} |->
                                v2_parse_filename(f, matcher.patterns)],
                  !.selected_groups = selection,
                  !.kept_files = r.kept_files,
                  !.moved_files = r.moved_files]
  /\ UNCHANGED <<cleanupvars, gridvars, scan, procs>>

InitMatcherV2 ==
  /\ CleanupAtRest
  /\ ods = Template
  /\ nsyncs = 0
  /\ last_sync = NoSync
  /\ created_on = {}
  /\ table = Template
  /\ ccalls = <<>>
  /\ scan = NoScan
  /\ procs = NoProcs
  /\ matcher \in [files : V2Listings,
                  patterns : SeqsUpTo(V2CustomPatterns, MaxPatterns),
                  done : {FALSE}, parsed : {<<>>}, selected_groups : {{}},
                  kept_files : {<<>>}, moved_files : {<<>>}]

NextMatcherV2 ==
  \/ MainV2

SpecMatcherV2 == InitMatcherV2 /\ [][NextMatcherV2]_vars

\* the first pattern of v2 that compiles and matches f has one group
FirstMatchHasOneGroup(f) ==
  LET all == v2_default_patterns \o matcher.patterns
      at == {k \in 1..Len(all) : Compiles(all[k]) /\ PatternMatch(all[k], f).ok}
  IN at # {} /\ GroupCount(all[CHOOSE k \in at : \A j \in at : k <= j]) = 1

\* the text the one-group pattern captures: the name without ".pdf"
CapturedText(f) == PatternMatch(PAT_one, f).g1

\* files parsed with a revision letter captured by a two-group pattern
RevisionedMembers(base) ==
  {g \in DOMAIN matcher.parsed :
     /\ ~FirstMatchHasOneGroup(g)
     /\ matcher.parsed[g].found
     /\ matcher.parsed[g].base_name = base}

\* C21: a file whose first matching pattern has one capture group gets the
\* whole captured text as base name and an absent revision, and in a processed
\* group that holds a revisioned member it is not the file kept.
C21_SingleGroupUnrevisioned ==
  matcher.done =>
    \A f \in DOMAIN matcher.parsed :
      FirstMatchHasOneGroup(f) =>
        /\ matcher.parsed[f].found
        /\ matcher.parsed[f].base_name = CapturedText(f)
        /\ matcher.parsed[f].revision = <<>>
        /\ RevisionedMembers(matcher.parsed[f].base_name) # {}
             => \A i \in 1..Len(matcher.kept_files) : matcher.kept_files[i] # f


\* C22: with the LF pattern as the custom pattern list, every file the LF
\* pattern matches is recognized with the LF pattern's captures: the base name
\* is its first group, without the LF_ prefix, and the revision its second.
C22_LFConfiguration ==
  (/\ matcher.done
   /\ matcher.patterns = <<PAT_LF>>
   /\ PatternMatch(PAT_LF, matcher.filename).ok)
  => /\ matcher.found
     /\ matcher.base_name = PatternMatch(PAT_LF, matcher.filename).g1
     /\ matcher.revision = PatternMatch(PAT_LF, matcher.filename).g2


(***************************************************************************)
(* parse_filename of pdf_manager_v3.py called with a pattern list, and the *)
(* test compare_and_group_files applies to its result.                     *)
(***************************************************************************)
\* parse_filename(filename, patterns) followed by "if base and rev is not
\* None ... else skipped_files.append(filename)"; the body of parse_filename
\* never reads patterns
ParseFilenameV3 ==
  /\ ~matcher.done
  /\ LET p == parse_filename(matcher.filename)
     IN matcher' = [matcher EXCEPT !.done = TRUE, !.found = p.ok,
                                   !.base_name = p.base, !.revision = p.rev,
                                   !.skipped = ~(p.ok /\ p.base # <<>>)]
  /\ UNCHANGED <<cleanupvars, gridvars, scan, procs>>

InitMatcherV3 ==
  /\ CleanupAtRest
  /\ ods = Template
  /\ nsyncs = 0
  /\ last_sync = NoSync
  /\ created_on = {}
  /\ table = Template
  /\ ccalls = <<>>
  /\ scan = NoScan
  /\ procs = NoProcs
  /\ matcher \in [filename : MatcherNames,
                  patterns : SeqsUpTo(CustomPatterns, MaxPatterns),
                  done : {FALSE}, found : {FALSE}, skipped : {FALSE},
                  base_name : {<<>>}, revision : {<<>>}]

NextMatcherV3 ==
  \/ ParseFilenameV3

SpecMatcherV3 == InitMatcherV3 /\ [][NextMatcherV3]_vars

\* a configured pattern compiles, matches the filename and captures a base
\* name and a revision
ConfiguredPatternMatches ==
  \E k \in 1..Len(matcher.patterns) :
    /\ Compiles(matcher.patterns[k])
    /\ GroupCount(matcher.patterns[k]) >= 2
    /\ PatternMatch(matcher.patterns[k], matcher.filename).ok

\* C23: a PDF filename that matches a configured pattern but neither built-in
\* pattern of pdf_manager_v3 is recognized (a base name is returned) and is
\* grouped rather than skipped.
C23_ConfiguredPatternsRecognize ==
  (/\ matcher.done
   /\ EndsWith(Lower(matcher.filename), DotPdf)
   /\ ~MatchesRevisionPattern(matcher.filename)
   /\ ~MatchesNoRevisionPattern(matcher.filename)
   /\ ConfiguredPatternMatches)
  => matcher.found /\ matcher.base_name # <<>> /\ ~matcher.skipped


\* C24: once the listing is grouped, every listed file the unrevisioned LF
\* pattern accepts has revision '' and the filename without its extension as
\* base name, and sits in the move list of the group of every listed
\* revisioned file <that base>_<L>.pdf.
C24_UnrevisionedBaseName ==
  grouped_files # <<>> =>
    \A f \in Listed :
      (MatchesNoRevisionPattern(f) /\ ~MatchesRevisionPattern(f))
        => /\ Parsed(f).ok
           /\ Parsed(f).rev = <<>>
           /\ Parsed(f).base = DropLastN(f, 4)
           /\ \A g \in Listed :
                (MatchesRevisionPattern(g) /\ DropLastN(g, 6) = DropLastN(f, 4))
                  => \E i \in 1..Len(grouped_files) :
                       /\ grouped_files[i].base = DropLastN(f, 4)
                       /\ g \in MembersOf(grouped_files[i].base)
                       /\ f \in MoveNamesOf(grouped_files[i])


\* the 0-based indices of the rows whose first cell reads key
RowsReading(t, key) ==
  {i \in 0..(Len(t) - 1) : RowAt(t, i) # <<>> /\ get_cell_text(RowAt(t, i)[1]) = key}

\* C25: after any sequence of synchronizations starting from the template,
\* _find_header_rows returns the template's Date row and Issue row (rows 10
\* and 11), and exactly one row has first cell "Date" and exactly one has
\* first cell "Issue".
C25_HeaderRowsStable ==
  /\ find_header_rows(ods) = find_header_rows(Template)
  /\ find_header_rows(ods).date = 10
  /\ find_header_rows(ods).meta = 11
  /\ Cardinality(RowsReading(ods, S_Date)) = 1
  /\ Cardinality(RowsReading(ods, S_Issue)) = 1


(***************************************************************************)
(* Synchronizations of a folder that holds a drawing whose base name is    *)
(* the text of the "Drawing No." header.                                   *)
(***************************************************************************)
G_DrawingNo_A == <<"D","r","a","w","i","n","g"," ","N","o",".","_","A",".","p","d","f">>
RowNames == {G_T1_A, G_T1_b_dwg, G_DrawingNo_A}

RowListings ==
  UNION {Perms(S) : S \in {X \in SUBSET RowNames : Cardinality(X) <= MaxListed}}

RowScanResults == {scan_for_drawings(listing) : listing \in RowListings}

\* update_transmittal on a folder of at most MaxListed of RowNames
UpdateTransmittalRows == UpdateTransmittalOn(RowScanResults)

NextRows ==
  \/ UpdateTransmittalRows

SpecRows == InitGrid /\ [][NextRows]_vars

\* the 0-based indices of the rows below the template's rows that carry a
\* drawing number
AppendedDrawingRows(t) ==
  {i \in Len(Template)..(Len(t) - 1) :
     RowAt(t, i) # <<>> /\ get_cell_text(RowAt(t, i)[1]) # <<>>}

\* C26: after any sequence of synchronizations starting from the template, no
\* two drawing rows carry the same drawing number, whatever base name the
\* filename pattern produces.
C26_OneRowPerDrawing ==
  \A i, j \in AppendedDrawingRows(ods) :
    i # j => get_cell_text(RowAt(ods, i)[1]) # get_cell_text(RowAt(ods, j)[1])


\* the entries of a scan result, whatever the order of the listing
IssuedSet(issued) == {issued[i] : i \in 1..Len(issued)}

\* C27: a run of update_transmittal that follows a saved run with the same
\* date, the same folder contents, the same issue code and formats leaves the
\* persisted document as the first run left it.
C27_SynchronizeIdempotent ==
  [][(/\ nsyncs >= 1
      /\ last_sync.saved
      /\ nsyncs' = nsyncs + 1
      /\ last_sync'.today = last_sync.today
      /\ last_sync'.meta = last_sync.meta
      /\ IssuedSet(last_sync'.issued) = IssuedSet(last_sync.issued))
     => ods' = ods]_vars


\* the files held in the directories spelled like the holding folder
HeldIn(d) == UNION {d[n].files : n \in {D_Superceded, D_superceded, D_SUPERCEDED}}

\* C28: in every state of a cleanup run, the run interrupted or aborted
\* included, the keep file of each processed group is in the source folder,
\* every file the holding folder held before the run is still held, and
\* every file of the source folder before the run is either in the source
\* folder or in the holding folder, not both.
C28_PartialBatchSafe ==
  /\ \A i \in 1..Len(grouped_files) :
       grouped_files[i].base \in selected_groups
         => grouped_files[i].keep[2] \in folder
  /\ \A k \in 1..Len(kept_files) : kept_files[k] \in folder
  /\ \A p \in HeldIn(start.dirs) : p \in HeldIn(dirs)
  /\ \A f \in start.folder :
       (f \in folder) # (<<f, "src">> \in HeldIn(dirs))


\* the move members of the groups a recorded run was to process
MovesOfRun(r) ==
  UNION {MoveNamesOf(r.groups[i]) :
           i \in {k \in 1..Len(r.groups) : r.groups[k].base \in r.selected}}

\* no two members of a group of the run carry the same revision token
DistinctTokens(r) ==
  \A i \in 1..Len(r.groups) :
    LET members == <<r.groups[i].keep>> \o r.groups[i].move IN
      \A a, b \in 1..Len(members) : a # b => members[a][1] # members[b][1]

\* the holding folder once every file of moves has been moved into it
HoldingAfter(d, moves) ==
  [d EXCEPT ![D_Superceded].files =
     {p \in @ : p[1] \notin moves} \cup {<<f, "src">> : f \in moves}]

\* a run interrupted after some completed moves, followed by a complete run
\* with the same groups selected, no two members of a group carrying the same
\* revision token
InterruptedThenComplete(k) ==
  /\ runs[k - 1].status = "move_error"
  /\ runs[k].status = "complete"
  /\ runs[k].selected = runs[k - 1].selected
  /\ DistinctTokens(runs[k - 1])

\* the second run ends in the state the first run would have ended in
\* uninterrupted: every move member of its processed groups in the holding
\* folder, every other file where it was
RecoveredState(k) ==
  /\ runs[k].folder = runs[k - 1].folder \ MovesOfRun(runs[k - 1])
  /\ runs[k].dirs = HoldingAfter(runs[k - 1].dirs, MovesOfRun(runs[k - 1]))

\* C29 as stated: a complete run after an interrupted run ends in the same
\* final state (source folder and holding folder) as a single uninterrupted
\* run, provided no two members of a group carry the same revision token.
C29_RecoveryByRerun ==
  \A k \in 2..Len(runs) : InterruptedThenComplete(k) => RecoveredState(k)

\* C29 as amended: the same, for a folder in which at most one directory
\* matches the holding-folder name case-insensitively when the interrupted
\* run starts.
C29_RecoveryOneHoldingDir ==
  \A k \in 2..Len(runs) :
    (InterruptedThenComplete(k)
       /\ Cardinality(MatchingDirs(runs[k - 1].dirs0, D_Superceded)) <= 1)
      => RecoveredState(k)

\* a run interrupted after one completed move, then a complete run that moved
\* the rest
C29_Witness ==
  /\ Len(runs) = 2
  /\ runs[1].status = "move_error"
  /\ runs[1].moved # <<>>
  /\ DistinctTokens(runs[1])
  /\ runs[2].status = "complete"
  /\ runs[2].selected = runs[1].selected
  /\ runs[2].moved # <<>>
  /\ Cardinality(MatchingDirs(runs[1].dirs0, D_Superceded)) <= 1


(***************************************************************************)
(* The legacy updater, update_transmittal_matrix.py, run beside the        *)
(* refactored one on the same inputs.                                      *)
(***************************************************************************)
\* extract_drawing_info: the three patterns differ in the separator only
legacy_extract_drawing_info(f) ==
  IF /\ Len(f) >= 7
     /\ Lower(LastN(f, 3)) \in DrawingExtensions
     /\ f[Len(f) - 3] = "."
     /\ IsLetter(f[Len(f) - 4])
     /\ f[Len(f) - 5] \in {"_", "-", "."}
     /\ \A i \in 1..(Len(f) - 6) : IsLetter(f[i]) \/ IsDigit(f[i]) \/ f[i] = "-"
  THEN [ok |-> TRUE, drawing_no |-> DropLastN(f, 6),
        rev |-> Upper(<<f[Len(f) - 4]>>), ext |-> Upper(LastN(f, 3))]
  ELSE [ok |-> FALSE, drawing_no |-> <<>>, rev |-> <<>>, ext |-> <<>>]

\* the scan loop of update_transmittal over the listed drawing files
RECURSIVE LegacyScanFiles(_, _)
LegacyScanFiles(issued, files) ==
  IF files = <<>> THEN issued
  ELSE LET e == legacy_extract_drawing_info(Head(files))
           k == IssuedIndex(issued, e.drawing_no)
           entry == [drawing_no |-> e.drawing_no, rev |-> e.rev, ext |-> e.ext]
       IN LegacyScanFiles(
            IF ~e.ok THEN issued
            ELSE IF k = 0 THEN Append(issued, entry)
            ELSE IF StrLess(issued[k].rev, e.rev) THEN [issued EXCEPT ![k] = entry]
            ELSE issued,
            Tail(files))

\* find_header_rows: "date_row_idx = 11", "meta_row_idx = 12"
legacy_find_header_rows == [date |-> 11, meta |-> 12]

\* find_or_create_issue_column of the legacy updater
legacy_find_or_create_issue_column(t, issue_label, issue_meta) ==
  LET h == legacy_find_header_rows
      rows == EnsureRowAfter(t, h.meta)
      col_idx == FirstColumnReading(RowAt(rows, h.date), issue_label)
  IN IF col_idx # -1
     THEN [table |-> IF col_idx < Len(RowAt(rows, h.meta))
                     THEN [rows EXCEPT ![h.meta + 1][col_idx + 1] = issue_meta]
                     ELSE rows,
           col |-> col_idx, created |-> FALSE]
     ELSE
       LET with_date == [rows EXCEPT ![h.date + 1] = Append(@, issue_label)]
           with_meta == [with_date EXCEPT ![h.meta + 1] = Append(@, issue_meta)]
           padded == SubSeq(with_meta, 1, h.meta + 1)
                       \o [k \in 1..(Len(with_meta) - h.meta - 1) |->
                             Append(PadTo(with_meta[h.meta + 1 + k], 2), <<>>)]
       IN [table |-> padded, col |-> Len(RowAt(padded, h.date)) - 1,
           created |-> TRUE]

\* get_drawing_rows of the legacy updater: "for i in range(13, len(rows))"
legacy_get_drawing_rows(t) ==
  LET data == {k \in 13..(Len(t) - 1) :
                 RowAt(t, k) # <<>> /\ get_cell_text(RowAt(t, k)[1]) # <<>>}
  IN [drawing_no \in {get_cell_text(RowAt(t, k)[1]) : k \in data} |->
        CHOOSE i \in data :
          /\ get_cell_text(RowAt(t, i)[1]) = drawing_no
          /\ \A j \in data : get_cell_text(RowAt(t, j)[1]) = drawing_no => j <= i]

\* the loop body of the legacy update_transmittal for one issued drawing:
\* a new row is the number, the title cell, issue_column_idx - 1 blank cells
\* and the revision cell
LegacyUpdateOne(t, drawing_rows, d, issue_column_idx) ==
  IF d.drawing_no \in DOMAIN drawing_rows
  THEN [t EXCEPT ![drawing_rows[d.drawing_no] + 1] =
          [PadThrough(@, issue_column_idx) EXCEPT ![issue_column_idx + 1] = d.rev]]
  ELSE Append(t, PadTo(<<d.drawing_no, <<>>>>
                         \o [k \in 1..(issue_column_idx - 1) |-> <<>>]
                         \o <<d.rev>>,
                       Len(RowAt(t, legacy_find_header_rows.meta))))

RECURSIVE LegacyUpdateAll(_, _, _, _)
LegacyUpdateAll(t, drawing_rows, issued, issue_column_idx) ==
  IF issued = <<>> THEN t
  ELSE LegacyUpdateAll(LegacyUpdateOne(t, drawing_rows, Head(issued), issue_column_idx),
                       drawing_rows, Tail(issued), issue_column_idx)

\* update_transmittal of the legacy updater on the loaded table t and the
\* listing of the folder: the table it leaves, whether it reached doc.save
legacy_update_transmittal(t, today, issue_code, formats, listing) ==
  LET c == legacy_find_or_create_issue_column(t, today, IssueMeta(issue_code, formats))
      drawing_rows == legacy_get_drawing_rows(c.table)
      issued_drawings == LegacyScanFiles(<<>>, SelectSeq(listing, HasDrawingExtension))
  IN IF issued_drawings = <<>>
     THEN [saved |-> FALSE, table |-> c.table, col |-> c.col, issued |-> <<>>]
     ELSE [saved |-> TRUE,
           table |-> LegacyUpdateAll(c.table, drawing_rows, issued_drawings, c.col),
           col |-> c.col, issued |-> issued_drawings]

\* drawing files whose base names are made of letters, digits and hyphens
LegacyNames == {G_T1_A, G_T1_b_dwg, G_T2_B_dxf}

LegacyListings ==
  UNION {Perms(S) : S \in {X \in SUBSET LegacyNames : Cardinality(X) <= MaxListed}}

\* both updaters run on their own copy of the document with the same folder,
\* date, issue code and formats; procs holds the legacy updater's document
UpdateBoth ==
  /\ nsyncs < MaxSyncs
  /\ \E today \in Days, issue_code \in IssueCodes, formats \in Formats,
        listing \in LegacyListings :
       LET issued_drawings == scan_for_drawings(listing)
           r == update_transmittal(ods, today, issue_code, formats, issued_drawings)
           l == legacy_update_transmittal(procs.ods, today, issue_code, formats, listing)
       IN /\ ods' = IF r.saved THEN r.table ELSE ods
          /\ table' = r.table
          /\ last_sync' = [today |-> today, meta |-> IssueMeta(issue_code, formats),
                           issued |-> issued_drawings,
                           raised |-> r.raised, saved |-> r.saved,
                           created |-> r.created, col |-> r.col]
          /\ created_on' = IF r.saved /\ r.created
                           THEN created_on \cup {today} ELSE created_on
          /\ procs' = [ods |-> IF l.saved THEN l.table ELSE procs.ods,
                       saved |-> l.saved, col |-> l.col, issued |-> l.issued]
  /\ nsyncs' = nsyncs + 1
  /\ UNCHANGED <<cleanupvars, scan, matcher, ccalls>>

InitLegacy ==
  /\ CleanupAtRest
  /\ ods = Template
  /\ nsyncs = 0
  /\ last_sync = NoSync
  /\ created_on = {}
  /\ table = Template
  /\ ccalls = <<>>
  /\ scan = NoScan
  /\ matcher = NoMatcher
  /\ procs = [ods |-> Template, saved |-> FALSE, col |-> -1, issued |-> <<>>]

NextLegacy ==
  \/ UpdateBoth

SpecLegacy == InitLegacy /\ [][NextLegacy]_vars

\* the 0-based columns after the first in which the row of a drawing carries
\* a text
RevisionColumns(t, rows, drawing_no) ==
  IF drawing_no \notin DOMAIN rows THEN {}
  ELSE LET row == RowAt(t, rows[drawing_no])
       IN {c \in 1..(Len(row) - 1) : row[c + 1] # <<>>}

\* C30: after runs of both updaters from the template with the same folder,
\* date, issue code and formats, both use the same Date and Issue rows, both
\* obtained the same issue column index, and every issued drawing carries its
\* revisions in the same cells of its row in both documents.
C30_RefactoredPreservesLegacy ==
  (nsyncs >= 1 /\ last_sync.saved) =>
    /\ find_header_rows(ods) = legacy_find_header_rows
    /\ procs.saved
    /\ procs.col = last_sync.col
    /\ \A i \in 1..Len(last_sync.issued) :
         RevisionColumns(ods, get_drawing_rows(ods), last_sync.issued[i].drawing_no)
           = RevisionColumns(procs.ods, legacy_get_drawing_rows(procs.ods),
                             last_sync.issued[i].drawing_no)

====
